---- MODULE Spec2Model ----
(***************************************************************************)
(* GhostIDE backend: the execution orchestrator (CodeExecutionService),    *)
(* the hook manager (HookManagerService) and the WebSocket connection      *)
(* registry (ConnectionManager), as state machines.                        *)
(*                                                                         *)
(* The services run on one asyncio event loop.  A coroutine runs without   *)
(* interruption from one await to the next, so every await of the source   *)
(* is a value of a task's pc and the code between two awaits is one step.  *)
(* Two pcs of execute_code, "dispatch" and "finish", are positions without *)
(* an await: while the call stands at one of them no other task may step   *)
(* (Loop_free), which keeps the code between two awaits atomic.            *)
(***************************************************************************)
EXTENDS Integers, Sequences, FiniteSets, TLC

VARIABLES
    docker_client,      \* CodeExecutionService.docker_client: "cli" or "none"
    hook_manager,       \* the global hook_manager: "installed" or "none"
    enabled_hooks,      \* HookManagerService.enabled_hooks
    hook_stats,         \* HookManagerService.hook_stats
    hook_objs,          \* every HookExecution object created, in creation order
    hook_executions,    \* HookManagerService.hook_executions: id -> object
    hk,                 \* the trigger_hook call of each caller
    ex,                 \* the execute_code call
    now,                \* datetime.utcnow()
    calls,              \* execute_code calls made so far
    triggers,           \* trigger_hook calls made by the hooks API so far
    active_connections, \* ConnectionManager.active_connections
    connection_sessions,\* ConnectionManager.connection_sessions
    session_subscribers,\* ConnectionManager.session_subscribers
    bc,                 \* the send call in progress
    connected,          \* what the last connect call returned
    first_sent,         \* the first message connect sent on each transport
    event_listeners,    \* HookManagerService.event_listeners
    lsn,                \* the _call_event_listeners call of each caller
    wn,                 \* the execute_code_with_notifications call
    host_zone,          \* the local time zone of the host
    ep,                 \* the websocket_endpoint call of each connection
    rl,                 \* the RateLimiter, its clock and the calls made to it
    cl,                 \* the CleanupService and its loop tasks
    sm                  \* the SessionManager, its stores and its calls

execVars == <<docker_client, hook_manager, enabled_hooks, hook_stats, hook_objs,
              hook_executions, hk, ex, now, calls, triggers>>

wsVars == <<active_connections, connection_sessions, session_subscribers, bc,
            connected, first_sent>>

mgrVars == <<cl, sm>>
sideVars == <<host_zone, ep, rl, mgrVars>>
appVars == <<wn, sideVars>>

svcVars == <<event_listeners, lsn, appVars>>

vars == <<execVars, wsVars, svcVars>>

(***************************************************************************)
(* Bounds of the model.                                                    *)
(***************************************************************************)
MaxCalls == 1
MaxApiTriggers == 2
MaxClock == 1
MaxPerSession == 2
MaxDisturb == 1
MaxListeners == 2
MaxRequests == 101
MaxMinutes == 2
MaxTasks == 2
MaxBlockCalls == 24

(***************************************************************************)
(* Data.                                                                   *)
(***************************************************************************)
Sessions == {"s1", "s2"}
\* LanguageType: one interpreted language, one compiled one, and "c", which
\* has neither a LanguageConfig nor a native command.
LanguageType == {"python", "java", "c"}
HookEventType == {"on_run", "on_error", "on_save"}
CodeKinds == {"hello", "import_ctypes"}
ReqTimeouts == {1, 45}
ExitCodes == {0, 1, 124}
StderrKinds == {"empty", "traceback"}
Callers == {"exec", "api"}
Conns == {"w1", "w2"}
\* The callbacks given to register_event_listener: a coroutine function,
\* and a plain function that raises.
Listeners == {"co", "bad"}

\* Python's exception classes as the source's except clauses meet them.
ExcClasses == {"Exception", "FileNotFoundError", "TimeoutError", "TimeoutExpired",
               "CancelledError"}

\* `except Exception`: asyncio.CancelledError derives from BaseException.
ExceptException(exc) == exc \in ExcClasses \ {"CancelledError"}

Msg(m, n) == [msg |-> m, n |-> n]

ExecutionResult(out, err, code, to) ==
    [stdout |-> out, stderr |-> err, exit_code |-> code, timed_out |-> to]

NoResult == ExecutionResult("", Msg("", 0), -1, FALSE)

NoRequest == [code |-> "hello", language |-> "python", timeout |-> 1,
              session_id |-> "s1", trigger_hooks |-> FALSE]

ExecutionRequest ==
    [code : CodeKinds, language : LanguageType, timeout : ReqTimeouts,
     session_id : {"s1"}, trigger_hooks : BOOLEAN]

(***************************************************************************)
(* Hook manager (hook_manager.py).                                         *)
(*                                                                         *)
(* A HookExecution object carries the source's fields (ai_response and     *)
(* error as "set or not") and history fields of the model: origin (the     *)
(* caller), call (whether its trigger_hook call is still active, has       *)
(* returned or has ended by raising), ret and exc (what the call returned  *)
(* or raised), pushed (the notifications sent for it), listened (whether   *)
(* _call_event_listeners ran for it) and result_existed (whether the       *)
(* triggering execution had built its ExecutionResult when react_to_event  *)
(* was called).                                                            *)
(***************************************************************************)
HookStatus == {"pending", "processing", "completed", "failed"}

\* execution_id = f"{session_id}_{event_type.value}_{timestamp}"
ExecutionId(sid, type, ts) == <<sid, type, ts>>

NewHookExecution(sid, type, ts, k, resEx) ==
    [id |-> ExecutionId(sid, type, ts), event_type |-> type, session_id |-> sid,
     status |-> "pending", ai_response |-> FALSE, error |-> FALSE,
     started_at |-> ts, completed_at |-> -1,
     origin |-> k, call |-> "active", ret |-> "none", exc |-> "",
     pushed |-> <<>>, send |-> "", listened |-> FALSE, result_existed |-> resEx]

IdleFrame == [pc |-> "idle", obj |-> 0, ret |-> "none"]

\* `except Exception as e` of trigger_hook.
TriggerExcept(exc) == ExceptException(exc)

\* A variant of the handler of the sends that absorbs nothing.
SendExceptNone(exc) == FALSE

\* `except Exception as e` of _send_ai_response and _send_hook_error.
SendExcept(exc) == ExceptException(exc)

Put(f, key, val) == [i \in DOMAIN f \cup {key} |-> IF i = key THEN val ELSE f[i]]

Remove(f, key) == [i \in DOMAIN f \ {key} |-> f[i]]

Range(q) == {q[i] : i \in DOMAIN q}

\* list.remove(x): the first occurrence.
RECURSIVE RemoveFirst(_, _)
RemoveFirst(q, x) ==
    IF q = <<>> THEN <<>>
    ELSE IF Head(q) = x THEN Tail(q)
    ELSE <<Head(q)>> \o RemoveFirst(Tail(q), x)

\* A variant of HookCall that counts the event before the disabled check.
HookCallCountsFirst(k, type, sid, resEx) ==
    IF ~enabled_hooks[type]
    THEN /\ hk' = [hk EXCEPT ![k] = [IdleFrame EXCEPT !.ret = "None"]]
         /\ hook_stats' = [hook_stats EXCEPT
                !.total_events = @ + 1,
                !.events_by_type[type] = @ + 1]
         /\ UNCHANGED <<hook_objs, hook_executions>>
    ELSE LET o == [NewHookExecution(sid, type, now, k, resEx)
                     EXCEPT !.status = "processing"]
             n == Len(hook_objs) + 1
         IN  /\ hook_objs' = Append(hook_objs, o)
             /\ hook_executions' = Put(hook_executions, o.id, n)
             /\ hook_stats' = [hook_stats EXCEPT
                    !.total_events = @ + 1,
                    !.events_by_type[type] = @ + 1]
             /\ hk' = [hk EXCEPT ![k] = [pc |-> "react", obj |-> n, ret |-> "none"]]

\* trigger_hook up to its first await: the disabled check, the record, the
\* counters, status processing.  The frame of a disabled call returns None
\* at once.
HookCall(k, type, sid, resEx) ==
    IF ~enabled_hooks[type]
    THEN /\ hk' = [hk EXCEPT ![k] = [IdleFrame EXCEPT !.ret = "None"]]
         /\ UNCHANGED <<hook_stats, hook_objs, hook_executions>>
    ELSE LET o == [NewHookExecution(sid, type, now, k, resEx)
                     EXCEPT !.status = "processing"]
             n == Len(hook_objs) + 1
         IN  /\ hook_objs' = Append(hook_objs, o)
             /\ hook_executions' = Put(hook_executions, o.id, n)
             /\ hook_stats' = [hook_stats EXCEPT
                    !.total_events = @ + 1,
                    !.events_by_type[type] = @ + 1]
             /\ hk' = [hk EXCEPT ![k] = [pc |-> "react", obj |-> n, ret |-> "none"]]

NoHookCall == UNCHANGED <<hook_stats, hook_objs, hook_executions, hk>>

\* `except Exception as e` around each hook call of execute_code.
HookSiteExcept(exc) == ExceptException(exc)

\* A variant of AfterHook without the try around the hook call: what the
\* hook raises reaches the outer handler, which builds an error result.
AfterHookUnguarded(e, exc) ==
    IF exc # ""
    THEN [e EXCEPT !.pc = "done", !.returned = @ + 1,
                   !.result = ExecutionResult("", Msg("Execution error", 0), 1, FALSE)]
    ELSE IF e.pc = "run_hook"
         THEN [e EXCEPT !.pc = "dispatch"]
         ELSE [e EXCEPT !.pc = "done", !.returned = @ + 1]

\* The state of the execute_code call once the hook it awaits has ended:
\* returned, or raised exc ("" when it returned).

AfterHook(e, exc) ==
    IF exc # "" /\ ~HookSiteExcept(exc)
    THEN [e EXCEPT !.pc = "raised", !.exc = exc]
    ELSE IF e.pc = "run_hook"
         THEN [e EXCEPT !.pc = "dispatch"]
         ELSE [e EXCEPT !.pc = "done", !.returned = @ + 1]

Resume(k, exc) ==
    IF k = "exec" THEN ex' = AfterHook(ex, exc) ELSE UNCHANGED ex

\* No call stands between two awaits.
Loop_free == ex.pc \notin {"dispatch", "finish"}

\* The statements after `await react_to_event` returned: completed, the
\* counter, then _send_ai_response up to its await of send_to_session.
Completed(o) ==
    [o EXCEPT !.ai_response = TRUE, !.status = "completed", !.completed_at = now,
              !.pushed = Append(@, "ghost_response")]

\* The except branch of trigger_hook up to the await of _send_hook_error.
Failed(o) ==
    [o EXCEPT !.status = "failed", !.error = TRUE, !.completed_at = now,
              !.pushed = Append(@, "error")]

AssistantReturns(k) ==
    /\ Loop_free
    /\ hk[k].pc = "react"
    /\ hook_objs' = [hook_objs EXCEPT ![hk[k].obj] = Completed(@)]
    /\ hook_stats' = [hook_stats EXCEPT !.successful_responses = @ + 1]
    /\ hk' = [hk EXCEPT ![k].pc = "send_resp"]
    /\ UNCHANGED <<wsVars, svcVars, docker_client, hook_manager, enabled_hooks, hook_executions,
                   ex, now, calls, triggers>>

\* The trigger_hook call k ends by raising exc.
Propagate(k, exc) ==
    /\ hook_objs' = [hook_objs EXCEPT ![hk[k].obj].call = "raised",
                                      ![hk[k].obj].exc = exc]
    /\ hk' = [hk EXCEPT ![k] = IdleFrame]
    /\ Resume(k, exc)
    /\ UNCHANGED hook_stats

\* The trigger_hook call k returns r; `return ai_response` follows
\* _call_event_listeners.
\* s notes as history how the await of send_to_session ended.
Returned(k, r, s) ==
    /\ hook_objs' = [hook_objs EXCEPT ![hk[k].obj].call = "returned",
                                      ![hk[k].obj].ret = r,
                                      ![hk[k].obj].send = s,
                                      ![hk[k].obj].listened = (r = "response")]
    /\ hk' = [hk EXCEPT ![k] = [IdleFrame EXCEPT !.ret = r]]
    /\ Resume(k, "")
    /\ UNCHANGED hook_stats

Return(k, r) == Returned(k, r, hook_objs[hk[k].obj].send)

\* The _call_event_listeners call of a caller: the position of the list
\* iterator (idx), the listeners invoked so far in order (invoked), and as
\* history the list when the loop began (start) and the listeners that
\* were registered or unregistered for the event type while the loop stood
\* at an await (touched).
IdleListen == [idx |-> 0, invoked |-> <<>>, start |-> <<>>, touched |-> {},
               await |-> FALSE]

\* asyncio.iscoroutinefunction(listener)
IsCoroutineFunction(l) == l = "co"

\* `for listener in listeners` from the frame f on, over the list q itself:
\* a plain function is called on the spot and what it raises is logged; at
\* a coroutine function the loop awaits.
RECURSIVE ListenFrom(_, _)
ListenFrom(f, q) ==
    IF f.idx >= Len(q) THEN [f EXCEPT !.await = FALSE]
    ELSE LET l == q[f.idx + 1]
             g == [f EXCEPT !.idx = @ + 1, !.invoked = Append(@, l)]
         IN  IF IsCoroutineFunction(l) THEN [g EXCEPT !.await = TRUE]
             ELSE ListenFrom(g, q)

\* The event type of the trigger_hook call k.
TypeOf(k) == hook_objs[hk[k].obj].event_type

\* trigger_hook goes on with the frame f of its _call_event_listeners
\* call: it awaits a listener, or the loop has ended and it returns the
\* response.
Listened(k, f, s) ==
    /\ lsn' = [lsn EXCEPT ![k] = f]
    /\ IF f.await
       THEN /\ hk' = [hk EXCEPT ![k].pc = "listen"]
            /\ hook_objs' = [hook_objs EXCEPT ![hk[k].obj].send = s]
            /\ UNCHANGED <<hook_stats, ex>>
       ELSE Returned(k, "response", s)

\* `await self._call_event_listeners(event_type, event, ai_response)` up to
\* its first await.
CallEventListeners(k, s) ==
    Listened(k, ListenFrom([IdleListen EXCEPT !.start = event_listeners[TypeOf(k)]],
                           event_listeners[TypeOf(k)]), s)

\* `except Exception as e` around one listener.
ListenerExcept(exc) == ExceptException(exc)

\* `await listener(event, response)` ends: it returned (exc = ""), or
\* raised exc.
ListenerEnds(k, exc) ==
    /\ Loop_free
    /\ hk[k].pc = "listen"
    /\ IF exc = "" \/ ListenerExcept(exc)
       THEN Listened(k, ListenFrom(lsn[k], event_listeners[TypeOf(k)]),
                     hook_objs[hk[k].obj].send)
       ELSE /\ Propagate(k, exc)
            /\ lsn' = [lsn EXCEPT ![k].await = FALSE]
    /\ UNCHANGED <<wsVars, docker_client, hook_manager, enabled_hooks,
                   hook_executions, now, calls, triggers, event_listeners, appVars>>

\* The frames of the loops that stand at an await over the listeners of
\* the event type t note that l was registered or unregistered.
Noted(t, l) ==
    [k \in Callers |->
        IF hk[k].pc = "listen" /\ TypeOf(k) = t
        THEN [lsn[k] EXCEPT !.touched = @ \cup {l}] ELSE lsn[k]]

\* register_event_listener(event_type, listener)
RegisterListener(t, l) ==
    /\ Loop_free
    /\ Len(event_listeners[t]) < MaxListeners
    /\ event_listeners' = [event_listeners EXCEPT ![t] = Append(@, l)]
    /\ lsn' = Noted(t, l)
    /\ UNCHANGED <<execVars, wsVars, appVars>>

\* unregister_event_listener(event_type, listener); of a listener that is
\* not in the list, list.remove raises ValueError, which is logged.
UnregisterListener(t, l) ==
    /\ Loop_free
    /\ l \in Range(event_listeners[t])
    /\ event_listeners' = [event_listeners EXCEPT ![t] = RemoveFirst(@, l)]
    /\ lsn' = Noted(t, l)
    /\ UNCHANGED <<execVars, wsVars, appVars>>

\* The except branch of trigger_hook, entered with the record o.
ToFailed(k) ==
    /\ hook_objs' = [hook_objs EXCEPT ![hk[k].obj] = Failed(@)]
    /\ hook_stats' = [hook_stats EXCEPT !.failed_responses = @ + 1]
    /\ hk' = [hk EXCEPT ![k].pc = "send_err"]
    /\ UNCHANGED ex

\* `await self.ghost_ai.react_to_event(...)` raises exc; a cancellation of
\* the awaiting task arrives here as CancelledError.
AssistantRaises(k, exc) ==
    /\ Loop_free
    /\ hk[k].pc = "react"
    /\ IF TriggerExcept(exc) THEN ToFailed(k) ELSE Propagate(k, exc)
    /\ UNCHANGED <<wsVars, svcVars, docker_client, hook_manager, enabled_hooks, hook_executions,
                   now, calls, triggers>>

\* `await connection_manager.send_to_session(...)` of _send_ai_response
\* ends: it returned (exc = ""), or raised exc.  _call_event_listeners
\* follows and trigger_hook returns the response.
SendResponseEnds(k, exc) ==
    /\ Loop_free
    /\ hk[k].pc = "send_resp"
    /\ IF exc = "" THEN CallEventListeners(k, "sent")
       ELSE IF SendExcept(exc) THEN CallEventListeners(k, exc)
       ELSE IF TriggerExcept(exc) THEN ToFailed(k) /\ UNCHANGED lsn
       ELSE Propagate(k, exc) /\ UNCHANGED lsn
    /\ UNCHANGED <<wsVars, docker_client, hook_manager, enabled_hooks, hook_executions,
                   now, calls, triggers, event_listeners, appVars>>

\* The same await in _send_hook_error, inside the except branch: what it
\* does not absorb leaves trigger_hook.
SendErrorEnds(k, exc) ==
    /\ Loop_free
    /\ hk[k].pc = "send_err"
    /\ IF exc = "" \/ SendExcept(exc) THEN Return(k, "None")
       ELSE Propagate(k, exc)
    /\ UNCHANGED <<wsVars, svcVars, docker_client, hook_manager, enabled_hooks, hook_executions,
                   now, calls, triggers>>

EnableHook(t) ==
    /\ Loop_free
    /\ ~enabled_hooks[t]
    /\ enabled_hooks' = [enabled_hooks EXCEPT ![t] = TRUE]
    /\ UNCHANGED <<wsVars, svcVars, docker_client, hook_manager, hook_stats, hook_objs,
                   hook_executions, hk, ex, now, calls, triggers>>

DisableHook(t) ==
    /\ Loop_free
    /\ enabled_hooks[t]
    /\ enabled_hooks' = [enabled_hooks EXCEPT ![t] = FALSE]
    /\ UNCHANGED <<wsVars, svcVars, docker_client, hook_manager, hook_stats, hook_objs,
                   hook_executions, hk, ex, now, calls, triggers>>

\* on_run_hook / on_error_hook / on_save_hook called by the hooks API or the
\* file manager.
ApiTrigger(t, sid) ==
    /\ Loop_free
    /\ hook_manager = "installed"
    /\ hk["api"].pc = "idle"
    /\ triggers < MaxApiTriggers
    /\ triggers' = triggers + 1
    /\ HookCall("api", t, sid, FALSE)
    /\ UNCHANGED <<wsVars, svcVars, docker_client, hook_manager, enabled_hooks, ex, now, calls>>

Max(a, b) == IF a > b THEN a ELSE b

\* Python's true division and product on the counters, as exact fractions.
Ratio(a, b) == [num |-> a, den |-> b]
Times(r, k) == [num |-> r.num * k, den |-> r.den]

\* A variant of get_hook_statistics that rates the finished triggers only.
HookStatisticsOfFinished ==
    [total_events |-> hook_stats.total_events,
     successful_responses |-> hook_stats.successful_responses,
     failed_responses |-> hook_stats.failed_responses,
     events_by_type |-> hook_stats.events_by_type,
     enabled_hooks |-> enabled_hooks,
     total_executions |-> Cardinality(DOMAIN hook_executions),
     success_rate |->
         Times(Ratio(hook_stats.successful_responses,
                     Max(hook_stats.successful_responses
                           + hook_stats.failed_responses, 1)), 100)]

get_hook_statistics ==
    [total_events |-> hook_stats.total_events,
     successful_responses |-> hook_stats.successful_responses,
     failed_responses |-> hook_stats.failed_responses,
     events_by_type |-> hook_stats.events_by_type,
     enabled_hooks |-> enabled_hooks,
     total_executions |-> Cardinality(DOMAIN hook_executions),
     success_rate |->
         Times(Ratio(hook_stats.successful_responses,
                     Max(hook_stats.total_events, 1)), 100)]

Tick ==
    /\ Loop_free
    /\ now < MaxClock
    /\ now' = now + 1
    /\ UNCHANGED <<wsVars, svcVars, docker_client, hook_manager, enabled_hooks, hook_stats,
                   hook_objs, hook_executions, hk, ex, calls, triggers>>

(***************************************************************************)
(* The clock counts hours.  datetime.utcnow() gives a naive datetime, and  *)
(* timestamp() of a naive datetime reads it as local time of the host: in  *)
(* the zone "UTC" that changes nothing, in the zone "DST" daylight saving  *)
(* time, one hour ahead, is in force for the local times before hour 1.    *)
(***************************************************************************)
HostZones == {"UTC", "DST"}
UtcOffset(zone, t) == IF zone = "DST" /\ t < 1 THEN 1 ELSE 0

\* naive.timestamp(), in hours
Timestamp(t) == t - UtcOffset(host_zone, t)

\* The ids that clear_execution_history(older_than_hours) removes.
ExecutionsToRemove(older_than_hours) ==
    LET cutoff_time == Timestamp(now) - older_than_hours
    IN  {id \in DOMAIN hook_executions :
            Timestamp(hook_objs[hook_executions[id]].started_at) < cutoff_time}

\* clear_execution_history(older_than_hours)
ClearExecutionHistory(older_than_hours) ==
    /\ Loop_free
    /\ hook_executions' =
           [id \in DOMAIN hook_executions \ ExecutionsToRemove(older_than_hours)
               |-> hook_executions[id]]
    /\ UNCHANGED <<wsVars, svcVars, docker_client, hook_manager, enabled_hooks,
                   hook_stats, hook_objs, hk, ex, now, calls, triggers>>

(***************************************************************************)
(* Execution orchestrator (code_execution.py).                             *)
(*                                                                         *)
(* The record ex is the execute_code call: its pc, the request, the        *)
(* ExecutionResult once built, the number of results returned to the       *)
(* caller, the exception that left the call (exc), the wait bound, and     *)
(* three history fields: started and alive (the sandbox processes this     *)
(* call started, in order, and those of them still running) and sbx (what  *)
(* the sandbox backend did: the step, the event, the exit code and the     *)
(* kind of stderr of the program).                                         *)
(***************************************************************************)
NativeLimit == 30

\* LanguageManager._languages: compiler_config.timeout of each language.
ConfigTimeout(lang) == IF lang = "java" THEN 45 ELSE 30

\* language_manager.get_language_config: "c" has no entry.
HasConfig(lang) == lang \in {"python", "java"}

\* exec_config of _native_execution.
NativeConfig(lang) == lang \in {"python", "java"}

Compiled(lang) == lang = "java"

Min(a, b) == IF a < b THEN a ELSE b

\* CodeExecutionService.validate_code: the security validator (the
\* DANGEROUS_PATTERNS match `import ctypes` in every language), then the
\* language manager.  "" when the code is valid, else the error message.
ValidateCode(code, lang) ==
    IF code = "import_ctypes" THEN "Security validation failed"
    ELSE IF ~HasConfig(lang) THEN "Unsupported language"
    ELSE ""

\* parse_error_message(stderr)["formatted"] replaces a non-empty stderr of
\* a failed run.
ParsedStderr(rc, err) ==
    IF rc # 0 /\ err # "empty"
    THEN "formatted"
    ELSE err

TimeoutMsg(t) == Msg("Execution timed out after", t)

\* The results the source builds, by place.
ValidationResult(m) == ExecutionResult("", Msg(m, 0), 1, FALSE)
UnsupportedResult == ExecutionResult("", Msg("Unsupported language", 0), 1, FALSE)
CompilationErrorResult == ExecutionResult("", Msg("Compilation error", 0), 1, FALSE)
RuntimeNotAvailableResult == ExecutionResult("", Msg("Runtime not available", 0), 1, FALSE)
ExecutionErrorResult == ExecutionResult("", Msg("Execution error", 0), 1, FALSE)
ContainerErrorResult == ExecutionResult("", Msg("Container error", 0), 1, FALSE)
NativeTimeoutResult(t) == ExecutionResult("", TimeoutMsg(t), 124, TRUE)
ContainerTimeoutResult(t) == ExecutionResult("", TimeoutMsg(t), 124, FALSE)
NativeRunResult(rc, err) == ExecutionResult("out", Msg(err, 0), rc, FALSE)
ContainerRunResult(rc, err) ==
    ExecutionResult("out", Msg(ParsedStderr(rc, err), 0), rc, FALSE)

\* The except clauses, by place.
NativeFileNotFound(exc) == exc = "FileNotFoundError"
NativeExcept(exc) == ExceptException(exc)
NativeCallExcept(exc) == ExceptException(exc)
NativeRunTimeoutExcept(exc) == exc = "TimeoutError"
ContainerTimeoutExpired(exc) == exc = "TimeoutExpired"
ContainerFileNotFound(exc) == exc = "FileNotFoundError"
\* A variant of the last handler that catches subprocess errors only.
ContainerExceptSubprocess(exc) == exc = "TimeoutExpired"
ContainerExcept(exc) == ExceptException(exc)

Sbx(step, ev, rc, err) == [step |-> step, ev |-> ev, rc |-> rc, err |-> err]
NoSbx == Sbx("none", "none", 0, "empty")

IdleExec ==
    [pc |-> "idle", req |-> NoRequest, result |-> NoResult, returned |-> 0,
     exc |-> "", started |-> <<>>, alive |-> {}, wait |-> 0, sbx |-> NoSbx,
     invoked |-> [on_run |-> 0, on_error |-> 0]]

\* The pcs at which execute_code awaits its own sandbox.
SandboxPcs == {"spawn_compile", "compile_wait", "spawn_run", "run_wait",
               "kill_wait", "docker_wait"}

\* The call has built its ExecutionResult.
HasResult(e) == e.result # NoResult

\* A variant of Built in which the on_error decision precedes the
\* construction of the result.
BuiltAfterHook(e, res) == [e EXCEPT !.pc = "finish"]

\* `result = ExecutionResult(...)`: the on_error decision follows.
Built(e, res) == [e EXCEPT !.result = res, !.pc = "finish"]

\* An exception exc raised inside the outer try of _native_execution while
\* the call stands at an await of e: the handlers of _native_execution, then
\* those of execute_code around the call.
NativeRaised(e, exc) ==
    IF NativeFileNotFound(exc) THEN Built(e, RuntimeNotAvailableResult)
    ELSE IF NativeExcept(exc) THEN Built(e, ExecutionErrorResult)
    ELSE IF NativeCallExcept(exc) THEN Built(e, ExecutionErrorResult)
    ELSE [e EXCEPT !.pc = "raised", !.exc = exc]

\* An exception exc raised by the await of run_in_executor.
ContainerRaised(e, exc) ==
    IF ContainerTimeoutExpired(exc) THEN Built(e, ContainerTimeoutResult(e.wait))
    ELSE IF ContainerFileNotFound(exc) THEN Built(e, ContainerErrorResult)
    ELSE IF ContainerExcept(exc) THEN Built(e, ExecutionErrorResult)
    ELSE [e EXCEPT !.pc = "raised", !.exc = exc]

\* execute_code(req) is called and runs to the on_run hook's first await.
Called(req) ==
    /\ ex.pc \in {"idle", "done", "raised"}
    /\ hk["exec"].pc = "idle"
    /\ calls < MaxCalls
    /\ calls' = calls + 1
    /\ IF req.trigger_hooks /\ hook_manager = "installed"
       THEN /\ HookCall("exec", "on_run", req.session_id, FALSE)
            /\ ex' = [IdleExec EXCEPT !.req = req, !.invoked.on_run = @ + 1,
                        !.pc = IF enabled_hooks["on_run"] THEN "run_hook"
                               ELSE "dispatch"]
       ELSE /\ NoHookCall
            /\ ex' = [IdleExec EXCEPT !.req = req, !.pc = "dispatch"]

\* execute_code called by the execution API.
ExecuteCode(req) ==
    /\ Called(req)
    /\ UNCHANGED <<wsVars, svcVars, docker_client, hook_manager, enabled_hooks, now, triggers>>

\* From the backend check to the first await of the backend.
Dispatched(e) ==
    IF docker_client = "none"
    THEN IF ~NativeConfig(e.req.language) THEN Built(e, UnsupportedResult)
         ELSE [e EXCEPT !.wait = Min(e.req.timeout, NativeLimit),
                        !.pc = IF Compiled(e.req.language) THEN "spawn_compile"
                               ELSE "spawn_run"]
    ELSE IF ValidateCode(e.req.code, e.req.language) # ""
         THEN Built(e, ValidationResult(ValidateCode(e.req.code, e.req.language)))
         ELSE [e EXCEPT !.wait = Min(e.req.timeout, ConfigTimeout(e.req.language)),
                        !.pc = "docker_wait"]

Dispatch ==
    /\ ex.pc = "dispatch"
    /\ ex' = Dispatched(ex)
    /\ UNCHANGED <<wsVars, svcVars, docker_client, hook_manager, enabled_hooks, hook_stats,
                   hook_objs, hook_executions, hk, now, calls, triggers>>

ExecStep(e2) ==
    /\ ex' = e2
    /\ UNCHANGED <<wsVars, svcVars, docker_client, hook_manager, enabled_hooks, hook_stats,
                   hook_objs, hook_executions, hk, now, calls, triggers>>

\* `await asyncio.create_subprocess_exec(javac | g++ ...)`.
SpawnCompile ==
    /\ ex.pc = "spawn_compile"
    /\ ExecStep([ex EXCEPT !.pc = "compile_wait",
                           !.started = Append(@, "compile"),
                           !.alive = @ \cup {"compile"}])

SpawnCompileRaises(exc) ==
    /\ ex.pc = "spawn_compile"
    /\ ExecStep(NativeRaised([ex EXCEPT !.sbx = Sbx("compile", exc, 0, "empty")], exc))

\* `await asyncio.wait_for(compile_proc.communicate(), timeout)` returns.
CompileExits(rc) ==
    /\ ex.pc = "compile_wait"
    /\ LET e == [ex EXCEPT !.alive = @ \ {"compile"},
                           !.sbx = Sbx("compile", "exit", rc, "empty")]
       IN  ExecStep(IF rc # 0 THEN Built(e, CompilationErrorResult)
                    ELSE [e EXCEPT !.pc = "spawn_run"])

\* The same await raises: asyncio.TimeoutError on expiry (wait_for cancels
\* communicate(), the compiler process is not touched), CancelledError when
\* the task is cancelled.
CompileWaitRaises(exc) ==
    /\ ex.pc = "compile_wait"
    /\ ExecStep(NativeRaised([ex EXCEPT !.sbx = Sbx("compile", exc, 0, "empty")], exc))

\* `await asyncio.create_subprocess_exec(*cmd ...)`.
SpawnRun ==
    /\ ex.pc = "spawn_run"
    /\ ExecStep([ex EXCEPT !.pc = "run_wait",
                           !.started = Append(@, "run"),
                           !.alive = @ \cup {"run"}])

SpawnRunRaises(exc) ==
    /\ ex.pc = "spawn_run"
    /\ ExecStep(NativeRaised([ex EXCEPT !.sbx = Sbx("run", exc, 0, "empty")], exc))

\* `await asyncio.wait_for(process.communicate(...), timeout)` returns:
\* exit_code = process.returncode, and `exit_code or 0` in the result.
RunExits(rc, err) ==
    /\ ex.pc = "run_wait"
    /\ ExecStep(Built([ex EXCEPT !.alive = @ \ {"run"},
                                 !.sbx = Sbx("run", "exit", rc, err)],
                      NativeRunResult(rc, err)))

\* The same await raises: the inner `except asyncio.TimeoutError` kills the
\* process and awaits process.wait(); anything else goes to the outer
\* handlers.
RunWaitRaises(exc) ==
    /\ ex.pc = "run_wait"
    /\ LET e == [ex EXCEPT !.sbx = Sbx("run", exc, 0, "empty")]
       IN  ExecStep(IF NativeRunTimeoutExcept(exc)
                    THEN [e EXCEPT !.alive = @ \ {"run"}, !.pc = "kill_wait"]
                    ELSE NativeRaised(e, exc))

\* `await process.wait()` returns after process.kill().
KillWaitReturns ==
    /\ ex.pc = "kill_wait"
    /\ ExecStep(Built(ex, NativeTimeoutResult(ex.wait)))

\* `await run_in_executor(subprocess.run(docker_cmd, timeout=timeout))`
\* returns the completed process.
DockerReturns(rc, err) ==
    /\ ex.pc = "docker_wait"
    /\ ExecStep(Built([ex EXCEPT !.started = Append(@, "docker"),
                                 !.sbx = Sbx("docker", "exit", rc, err)],
                      ContainerRunResult(rc, err)))

\* The same await raises.  subprocess.run kills and reaps its child before
\* it raises TimeoutExpired; FileNotFoundError and the other errors of
\* Popen mean that no child was started; a cancellation of the awaiting
\* task leaves the executor thread and its child running.
DockerRaises(exc) ==
    /\ ex.pc = "docker_wait"
    /\ ExecStep(ContainerRaised(
           [ex EXCEPT !.started = IF exc \in {"TimeoutExpired", "CancelledError"}
                                   THEN Append(@, "docker") ELSE @,
                      !.alive = IF exc = "CancelledError"
                                 THEN @ \cup {"docker"} ELSE @,
                      !.sbx = Sbx("docker", exc, 0, "empty")], exc))

\* The result is built: the on_error hook when the run failed, then
\* `return result`.
\* A variant that calls on_error_hook for every result.
WantsErrorHookOfAnyResult(e) ==
    e.req.trigger_hooks /\ hook_manager = "installed"

\* `if trigger_hooks and result.exit_code != 0` and `if hook_manager`.
WantsErrorHook(e) ==
    e.req.trigger_hooks /\ e.result.exit_code # 0 /\ hook_manager = "installed"

Finish ==
    /\ ex.pc = "finish"
    /\ IF WantsErrorHook(ex)
       THEN /\ HookCall("exec", "on_error", ex.req.session_id, HasResult(ex))
            /\ ex' = IF enabled_hooks["on_error"]
                     THEN [ex EXCEPT !.pc = "err_hook", !.invoked.on_error = @ + 1]
                     ELSE [ex EXCEPT !.pc = "done", !.returned = @ + 1,
                                     !.invoked.on_error = @ + 1]
       ELSE /\ NoHookCall
            /\ ex' = [ex EXCEPT !.pc = "done", !.returned = @ + 1]
    /\ UNCHANGED <<wsVars, svcVars, docker_client, hook_manager, enabled_hooks, now, calls, triggers>>


(***************************************************************************)
(* Execution with notifications (websocket_code_execution.py and           *)
(* message_router.py).                                                     *)
(*                                                                         *)
(* The record wn is the execute_code_with_notifications call: its pc, its  *)
(* arguments, the execution_id, the result it holds, what it returned or   *)
(* raised, and as history the notifications it handed to send_to_session,  *)
(* in order (sent), and the number of those sends that raised (failed).    *)
(* The inner execute_code call is the record ex.                           *)
(***************************************************************************)
Notification(type, id, res) == [type |-> type, execution_id |-> id, result |-> res]

IdleWrapper ==
    [pc |-> "idle", req |-> NoRequest, notify_hooks |-> FALSE, execution_id |-> -1,
     result |-> NoResult, ret |-> NoResult, returned |-> 0, exc |-> "",
     sent |-> <<>>, failed |-> 0]

ServiceErrorResult == ExecutionResult("", Msg("Execution service error", 0), 1, FALSE)

\* A variant of the handlers of the router that absorbs nothing.
RouterExceptNone(exc) == FALSE

\* `except Exception as e` of notify_execution_start and
\* notify_execution_complete.
RouterExcept(exc) == ExceptException(exc)

\* `except Exception as e` of execute_code_with_notifications.
WrapperExcept(exc) == ExceptException(exc)

\* The call leaves its try block with exc: the except branch builds the
\* error result and awaits notify_execution_complete with it, unless exc is
\* not an Exception.
WrapperRaised(f, exc) ==
    IF WrapperExcept(exc)
    THEN [f EXCEPT !.pc = "notify_error", !.result = ServiceErrorResult,
                   !.sent = Append(@, Notification("execution_complete",
                                                   f.execution_id, ServiceErrorResult))]
    ELSE [f EXCEPT !.pc = "raised", !.exc = exc]

\* execute_code_with_notifications(request, notify_hooks) up to the await
\* of send_to_session in notify_execution_start.
ExecuteCodeWithNotifications(req, notify_hooks) ==
    /\ Loop_free
    /\ wn.pc \in {"idle", "done", "raised"}
    /\ ex.pc \in {"idle", "done", "raised"}
    /\ calls < MaxCalls
    /\ wn' = [IdleWrapper EXCEPT
                 !.pc = "notify_start", !.req = req, !.notify_hooks = notify_hooks,
                 !.execution_id = now,
                 !.sent = <<Notification("execution_start", now, NoResult)>>]
    /\ UNCHANGED <<execVars, wsVars, event_listeners, lsn, sideVars>>

\* The send of the start notification ends (exc = "": it returned).  What
\* the router absorbs leaves the call where it is, and execute_code is
\* called with trigger_hooks = False.
NotifyStartEnds(exc) ==
    /\ wn.pc = "notify_start"
    /\ LET f == [wn EXCEPT !.failed = IF exc = "" THEN @ ELSE @ + 1]
       IN  IF exc = "" \/ RouterExcept(exc)
           THEN /\ Called([wn.req EXCEPT !.trigger_hooks = FALSE])
                /\ wn' = [f EXCEPT !.pc = "execute"]
           ELSE /\ wn' = WrapperRaised(f, exc)
                /\ UNCHANGED <<hook_stats, hook_objs, hook_executions, hk, ex, calls>>
    /\ UNCHANGED <<wsVars, event_listeners, lsn, sideVars, docker_client,
                   hook_manager, enabled_hooks, now, triggers>>

\* `await self.execute_code(request, trigger_hooks=False)` ends: the call
\* goes on to notify_execution_complete, or leaves the try block.
ExecuteCodeEnds ==
    /\ wn.pc = "execute"
    /\ ex.pc \in {"done", "raised"}
    /\ wn' = IF ex.pc = "done"
             THEN [wn EXCEPT !.pc = "notify_complete", !.result = ex.result,
                      !.sent = Append(@, Notification("execution_complete",
                                                      wn.execution_id, ex.result))]
             ELSE WrapperRaised(wn, ex.exc)
    /\ UNCHANGED <<execVars, wsVars, event_listeners, lsn, sideVars>>

\* The send of the complete notification ends.  An exception that the
\* router does not absorb leaves the try block, or, in the except branch,
\* the call.
NotifyCompleteEnds(exc) ==
    /\ wn.pc \in {"notify_complete", "notify_error"}
    /\ LET f == [wn EXCEPT !.failed = IF exc = "" THEN @ ELSE @ + 1]
       IN  wn' = IF exc = "" \/ RouterExcept(exc)
                 THEN [f EXCEPT !.pc = "done", !.ret = f.result, !.returned = @ + 1]
                 ELSE IF wn.pc = "notify_complete" THEN WrapperRaised(f, exc)
                 ELSE [f EXCEPT !.pc = "raised", !.exc = exc]
    /\ UNCHANGED <<execVars, wsVars, event_listeners, lsn, sideVars>>

(***************************************************************************)
(* Connection registry (websocket_manager.py).                             *)
(*                                                                         *)
(* active_connections maps a session id to the list of its connections;    *)
(* a session without entry is outside the function's domain.  The record   *)
(* bc is the send_to_session call in progress: the `for` loop of the       *)
(* source iterates the list object of the session itself, so bc holds the  *)
(* position of Python's list iterator (idx, the number of items taken) and *)
(* whether the list it iterates was removed from the dictionary            *)
(* (detached; a list is removed only when empty, and nothing is added to   *)
(* it afterwards).  History fields of bc: the list as it was when the call *)
(* started, the send attempts and the deliveries per connection (a send    *)
(* that raised is an attempt without delivery), the connections            *)
(* disconnected since the start (gone), the number of connects and         *)
(* disconnects from outside the call during the call (disturbed), and      *)
(* whether the list held distinct connections, all registered to the       *)
(* session, when the call started (clean).  A send_to_connection call     *)
(* made on its own is the same record with kind "one"; the send_to_session *)
(* calls of a broadcast_to_all carry the sessions still to come (rest),    *)
(* and bc stands at "next" between two of them, a position without an      *)
(* await (Ws_free).  banned holds the connections that were not in         *)
(* connection_sessions when the send_to_session call started, or were      *)
(* disconnected during it, and have not been connected since.              *)
(* The history of a call that has returned is dropped by the next step of  *)
(* the registry.                                                           *)
(***************************************************************************)
IdleBroadcast ==
    [pc |-> "idle", sid |-> "s1", idx |-> 0, cur |-> "w1", detached |-> FALSE,
     start |-> <<>>, clean |-> TRUE, kind |-> "session", rest |-> <<>>,
     banned |-> {},
     attempts |-> [w \in Conns |-> 0], delivered |-> [w \in Conns |-> 0],
     gone |-> {}, disturbed |-> 0]

\* The registry after disconnect(w): [ac, cs, ss, deleted], deleted being
\* the session whose entry was removed ("" when none was).
Disconnected(ac, cs, ss, w) ==
    IF w \notin DOMAIN cs
    THEN [ac |-> ac, cs |-> cs, ss |-> ss, deleted |-> ""]
    ELSE LET sid == cs[w]
             cs2 == Remove(cs, w)
         IN  IF sid \notin DOMAIN ac
             THEN [ac |-> ac, cs |-> cs2, ss |-> ss, deleted |-> ""]
             ELSE LET l == RemoveFirst(ac[sid], w)
                  IN  IF l = <<>>
                      THEN [ac |-> Remove(ac, sid), cs |-> cs2,
                            ss |-> Remove(ss, sid), deleted |-> sid]
                      ELSE [ac |-> [ac EXCEPT ![sid] = l], cs |-> cs2,
                            ss |-> ss, deleted |-> ""]

\* The list the iterator of the call b reads, given the dictionary ac.
IterList(b, ac) ==
    IF b.detached \/ b.sid \notin DOMAIN ac THEN <<>> ELSE ac[b.sid]

\* The call b is in progress.
Broadcasting(b) == b.pc = "sending"

\* broadcast_to_all does not stand between two send_to_session calls.
Ws_free == bc.pc # "next"

\* The registry may change under the call b.
MayDisturb(b) == Broadcasting(b) => b.disturbed < MaxDisturb

\* What a change of the registry from outside the call does to b: `gone`
\* gets the disconnected connection, `deleted` detaches the iterator.
Touched(b, w, deleted, isDisconnect) ==
    IF ~Broadcasting(b) THEN IdleBroadcast
    ELSE [b EXCEPT !.disturbed = @ + 1,
                   !.gone = IF isDisconnect THEN @ \cup {w} ELSE @,
                   !.banned = IF isDisconnect THEN @ \cup {w} ELSE @ \ {w},
                   !.detached = @ \/ deleted = b.sid]

\* A variant of connect that creates the session's entries before it
\* awaits accept().
ConnectRegistersFirst(w, sid, accepted) ==
    LET l == IF sid \in DOMAIN active_connections
             THEN active_connections[sid] ELSE <<>>
        subs == IF sid \in DOMAIN session_subscribers
                THEN session_subscribers[sid] ELSE {}
    IN  /\ Ws_free
        /\ connected' = IF accepted THEN "true" ELSE "false"
        /\ first_sent' = IF accepted THEN [first_sent EXCEPT ![w] = "none"]
                         ELSE first_sent
        /\ Len(l) < MaxPerSession
        /\ MayDisturb(bc)
        /\ active_connections' =
               Put(active_connections, sid, IF accepted THEN Append(l, w) ELSE l)
        /\ connection_sessions' =
               IF accepted THEN Put(connection_sessions, w, sid)
               ELSE connection_sessions
        /\ session_subscribers' =
               Put(session_subscribers, sid,
                   IF accepted THEN subs \cup {<<sid, Len(l) + 1>>} ELSE subs)
        /\ bc' = Touched(bc, w, "", FALSE)
        /\ UNCHANGED <<execVars, svcVars>>

\* connect(websocket, session_id): `await websocket.accept()` returns or
\* raises, then the registration.
Connected(w, sid, accepted) ==
    /\ Ws_free
    /\ connected' = IF accepted THEN "true" ELSE "false"
    /\ first_sent' = IF accepted THEN [first_sent EXCEPT ![w] = "none"]
                     ELSE first_sent
    /\ IF ~accepted
       THEN /\ bc' = IF Broadcasting(bc) THEN bc ELSE IdleBroadcast
            /\ UNCHANGED <<active_connections, connection_sessions,
                           session_subscribers>>
       ELSE LET l == IF sid \in DOMAIN active_connections
                     THEN active_connections[sid] ELSE <<>>
                subs == IF sid \in DOMAIN session_subscribers
                        THEN session_subscribers[sid] ELSE {}
            IN  /\ Len(l) < MaxPerSession
                /\ MayDisturb(bc)
                /\ active_connections' = Put(active_connections, sid, Append(l, w))
                /\ connection_sessions' = Put(connection_sessions, w, sid)
                /\ session_subscribers' =
                       Put(session_subscribers, sid, subs \cup {<<sid, Len(l) + 1>>})
                /\ bc' = Touched(bc, w, "", FALSE)

\* connect(websocket, session_id), called on its own.
Connect(w, sid, accepted) ==
    /\ Connected(w, sid, accepted)
    /\ UNCHANGED <<execVars, svcVars>>

\* disconnect(websocket), called from outside send_to_session.
Disconnect(w) ==
    /\ Ws_free
    /\ w \in DOMAIN connection_sessions
    /\ MayDisturb(bc)
    /\ LET r == Disconnected(active_connections, connection_sessions,
                             session_subscribers, w)
       IN  /\ active_connections' = r.ac
           /\ connection_sessions' = r.cs
           /\ session_subscribers' = r.ss
           /\ bc' = Touched(bc, w, r.deleted, TRUE)
    /\ UNCHANGED <<execVars, svcVars, connected, first_sent>>

\* The `for` statement asks the iterator for its next item: the call sends
\* to it, or leaves the loop (connections_to_remove is empty, since
\* send_to_connection raises nothing) and returns, to broadcast_to_all
\* when that made the call.
Advance(b, ac) ==
    LET l == IterList(b, ac)
    IN  IF b.idx < Len(l)
        THEN [b EXCEPT !.idx = @ + 1, !.cur = l[b.idx + 1], !.pc = "sending",
                       !.attempts[l[b.idx + 1]] = @ + 1]
        ELSE [b EXCEPT !.pc = IF b.rest = <<>> THEN "done" ELSE "next"]

\* The connections of the list l are distinct and registered to sid.
Clean(l, sid) ==
    /\ \A i, j \in DOMAIN l : l[i] = l[j] => i = j
    /\ \A i \in DOMAIN l :
          l[i] \in DOMAIN connection_sessions /\ connection_sessions[l[i]] = sid

\* A send_to_session(sid) call up to its first await of send_text, rest
\* being the sessions broadcast_to_all has still to serve.
StartSession(sid, rest) ==
    IF sid \notin DOMAIN active_connections
    THEN [IdleBroadcast EXCEPT !.pc = IF rest = <<>> THEN "done" ELSE "next",
                               !.sid = sid, !.rest = rest]
    ELSE Advance([IdleBroadcast EXCEPT !.sid = sid, !.rest = rest,
                      !.start = active_connections[sid],
                      !.clean = Clean(active_connections[sid], sid),
                      !.banned = Conns \ DOMAIN connection_sessions],
                 active_connections)

\* A variant of send_to_session that looks the session up with
\* setdefault, which gives an unknown session an empty entry.
SendToSessionSetdefault(sid) ==
    /\ bc.pc \in {"idle", "done"}
    /\ bc' = StartSession(sid, <<>>)
    /\ active_connections' =
           IF sid \in DOMAIN active_connections THEN active_connections
           ELSE Put(active_connections, sid, <<>>)
    /\ UNCHANGED <<execVars, svcVars, connection_sessions, session_subscribers,
                   connected, first_sent>>

\* send_to_session(session_id, message) up to the first await of send_text.
SendToSession(sid) ==
    /\ bc.pc \in {"idle", "done"}
    /\ bc' = StartSession(sid, <<>>)
    /\ UNCHANGED <<execVars, svcVars, active_connections, connection_sessions,
                   session_subscribers, connected, first_sent>>

\* The orders in which list(d.keys()) may give the keys S.
Orders(S) == {q \in [1..Cardinality(S) -> S] : Range(q) = S}

\* broadcast_to_all(message): the snapshot of the session ids, then the
\* first send_to_session up to its first await.
BroadcastToAll(order) ==
    /\ bc.pc \in {"idle", "done"}
    /\ order \in Orders(DOMAIN active_connections)
    /\ bc' = IF order = <<>> THEN [IdleBroadcast EXCEPT !.pc = "done"]
             ELSE StartSession(Head(order), Tail(order))
    /\ UNCHANGED <<execVars, svcVars, active_connections, connection_sessions,
                   session_subscribers, connected, first_sent>>

\* The loop of broadcast_to_all goes on to its next session.
BroadcastNext ==
    /\ bc.pc = "next"
    /\ bc' = StartSession(Head(bc.rest), Tail(bc.rest))
    /\ UNCHANGED <<execVars, svcVars, active_connections, connection_sessions,
                   session_subscribers, connected, first_sent>>

\* send_to_connection(websocket, message), called on its own, up to the
\* await of send_text.
SendToConnection(w) ==
    /\ bc.pc \in {"idle", "done"}
    /\ bc' = [IdleBroadcast EXCEPT !.pc = "sending", !.kind = "one", !.cur = w,
                                   !.attempts[w] = 1]
    /\ UNCHANGED <<execVars, svcVars, active_connections, connection_sessions,
                   session_subscribers, connected, first_sent>>

\* The call b after a send of it has ended.
AfterSend(b, ac) ==
    IF b.kind = "one" THEN [b EXCEPT !.pc = "done"] ELSE Advance(b, ac)

\* `await websocket.send_text(...)` of send_to_connection ends: delivered,
\* or raised, and then send_to_connection disconnects the connection.  The
\* loop goes on to the next item.
SendTextEnds(ok) ==
    /\ bc.pc = "sending"
    /\ IF ok
       THEN /\ bc' = AfterSend([bc EXCEPT !.delivered[bc.cur] = @ + 1],
                               active_connections)
            /\ UNCHANGED <<active_connections, connection_sessions,
                           session_subscribers>>
       ELSE LET r == Disconnected(active_connections, connection_sessions,
                                  session_subscribers, bc.cur)
            IN  /\ active_connections' = r.ac
                /\ connection_sessions' = r.cs
                /\ session_subscribers' = r.ss
                /\ bc' = AfterSend([bc EXCEPT !.gone = @ \cup {bc.cur},
                                              !.banned = @ \cup {bc.cur},
                                              !.detached = @ \/ r.deleted = bc.sid],
                                   r.ac)
    /\ UNCHANGED <<execVars, svcVars, connected, first_sent>>

(***************************************************************************)
(* The WebSocket endpoint (api/endpoints/websocket.py).  ep[w] is the      *)
(* websocket_endpoint call that serves the connection w: "closed" before   *)
(* the call and when connect returned False, "receive" at the await of     *)
(* receive_text, "chat" at the await of generate_response, "send" at the   *)
(* await of send_text inside send_to_connection, "done" after the finally  *)
(* clause.  frame is the frame being handled, failed whether it raised,    *)
(* msg the message being sent, out the messages delivered for the frame,   *)
(* held whether the connection was registered when the frame arrived.     *)
(***************************************************************************)
IdleEndpoint ==
    [pc |-> "closed", sid |-> "s1", frame |-> "none", failed |-> FALSE,
     msg |-> "none", out |-> <<>>, held |-> FALSE]

\* Frames a client sends: text that is not JSON, JSON that is no
\* WebSocketMessage, an execute_code message that makes no
\* ExecutionRequest, and messages of the types ghost_chat, ping,
\* save_file and connect.
EndpointFrames ==
    {"invalid_json", "invalid_message", "execute_code_invalid", "ghost_chat",
     "ping", "save_file", "connect"}

\* The frames whose handling raises before any await.
RaisingFrames == {"invalid_json", "invalid_message", "execute_code_invalid"}

\* The connection w is registered to the session sid.
RegisteredTo(w, sid) ==
    /\ w \in DOMAIN connection_sessions
    /\ connection_sessions[w] = sid
    /\ sid \in DOMAIN active_connections
    /\ w \in Range(active_connections[sid])

\* What the endpoint call f does with a frame, up to its next await.
\* A variant that only logs the frames that raise.
ReceivedLogsOnly(f, frame) ==
    LET g == [f EXCEPT !.frame = frame, !.out = <<>>,
                       !.failed = frame \in RaisingFrames]
    IN  CASE frame \in RaisingFrames -> [g EXCEPT !.pc = "receive"]
          [] frame = "ping" -> [g EXCEPT !.pc = "send", !.msg = "pong"]
          [] frame = "save_file" -> [g EXCEPT !.pc = "send", !.msg = "file_saved"]
          [] frame = "ghost_chat" -> [g EXCEPT !.pc = "chat"]
          [] OTHER -> [g EXCEPT !.pc = "receive"]

\* What the endpoint call f does with a frame, up to its next await:
\* send_error for a frame that raises, the reply for ping and save_file,
\* generate_response for ghost_chat, a log line for connect.
Received(f, frame) ==
    LET g == [f EXCEPT !.frame = frame, !.out = <<>>,
                       !.failed = frame \in RaisingFrames]
    IN  CASE frame \in RaisingFrames -> [g EXCEPT !.pc = "send", !.msg = "error"]
          [] frame = "ping" -> [g EXCEPT !.pc = "send", !.msg = "pong"]
          [] frame = "save_file" -> [g EXCEPT !.pc = "send", !.msg = "file_saved"]
          [] frame = "ghost_chat" -> [g EXCEPT !.pc = "chat"]
          [] OTHER -> [g EXCEPT !.pc = "receive"]

\* What the endpoint actions leave alone.
endpointFrame == <<execVars, event_listeners, lsn, wn, host_zone, rl, mgrVars>>

\* websocket_endpoint(websocket, session_id) up to its first receive_text:
\* connect, and the return when connect gave False.
WebsocketEndpoint(w, sid, accepted) ==
    /\ ep[w].pc \in {"closed", "done"}
    /\ Connected(w, sid, accepted)
    /\ ep' = [ep EXCEPT ![w] =
                 IF accepted
                 THEN [IdleEndpoint EXCEPT !.pc = "receive", !.sid = sid]
                 ELSE IdleEndpoint]
    /\ UNCHANGED endpointFrame

\* `await websocket.receive_text()` returns a frame.
ReceiveText(w, frame) ==
    /\ ep[w].pc = "receive"
    /\ ep' = [ep EXCEPT ![w] =
                 Received([ep[w] EXCEPT !.held = RegisteredTo(w, ep[w].sid)], frame)]
    /\ UNCHANGED <<wsVars, endpointFrame>>

\* The finally clause of the endpoint: disconnect(websocket).
EndpointFinally(w) ==
    LET r == Disconnected(active_connections, connection_sessions,
                          session_subscribers, w)
    IN  /\ active_connections' = r.ac
        /\ connection_sessions' = r.cs
        /\ session_subscribers' = r.ss
        /\ ep' = [ep EXCEPT ![w].pc = "done"]
        /\ UNCHANGED <<bc, connected, first_sent, endpointFrame>>

\* A variant of the way out of the receive loop whose clean-up stands in
\* the WebSocketDisconnect handler instead of a finally clause.
ReceiveRaisesNoFinally(w, exc) ==
    /\ ep[w].pc = "receive"
    /\ IF exc = "WebSocketDisconnect"
       THEN EndpointFinally(w)
       ELSE /\ ep' = [ep EXCEPT ![w].pc = "done"]
            /\ UNCHANGED <<wsVars, endpointFrame>>

\* `await websocket.receive_text()` raises: the loop ends, by the client's
\* disconnect or by another exception, and the finally clause runs.
ReceiveRaises(w, exc) ==
    /\ ep[w].pc = "receive"
    /\ EndpointFinally(w)

\* `await ghost_service.generate_response(...)` ends: the response is sent,
\* or send_error for the exception; a cancellation leaves the endpoint.
ChatEnds(w, exc) ==
    /\ ep[w].pc = "chat"
    /\ CASE exc = "" ->
              /\ ep' = [ep EXCEPT ![w].pc = "send", ![w].msg = "ghost_response"]
              /\ UNCHANGED <<wsVars, endpointFrame>>
         [] exc = "Exception" ->
              /\ ep' = [ep EXCEPT ![w].pc = "send", ![w].msg = "error",
                                   ![w].failed = TRUE]
              /\ UNCHANGED <<wsVars, endpointFrame>>
         [] OTHER -> EndpointFinally(w)

\* `await websocket.send_text(...)` of the endpoint's send_to_connection
\* ends: delivered; or raised, and send_to_connection disconnects the
\* connection; either way the loop goes on to the next receive_text.  A
\* cancellation leaves the endpoint.
EndpointSendEnds(w, exc) ==
    /\ ep[w].pc = "send"
    /\ CASE exc = "" ->
              /\ ep' = [ep EXCEPT ![w].pc = "receive",
                                   ![w].out = Append(@, [to |-> w, type |-> ep[w].msg])]
              /\ UNCHANGED <<active_connections, connection_sessions,
                             session_subscribers, bc, connected, first_sent,
                             endpointFrame>>
         [] exc = "Exception" ->
              LET r == Disconnected(active_connections, connection_sessions,
                                    session_subscribers, w)
              IN  /\ active_connections' = r.ac
                  /\ connection_sessions' = r.cs
                  /\ session_subscribers' = r.ss
                  /\ ep' = [ep EXCEPT ![w].pc = "receive"]
                  /\ UNCHANGED <<bc, connected, first_sent, endpointFrame>>
         [] OTHER -> EndpointFinally(w)

(***************************************************************************)
(* The cleanup service (cleanup_service.py).  cl.tasks holds every task    *)
(* start created, cl.task the index of self._task (0 for None).  A task    *)
(* stands at "new" before its first step, at "cleanup" at the await of     *)
(* run_cleanup, at "sleep" at the await of sleep(cleanup_interval), at     *)
(* "retry" at the await of sleep(60) in the Exception handler, and at      *)
(* "done" with the outcome its awaiter gets.  cancel tells that cancel()   *)
(* was called and the CancelledError is still to be thrown into the task.  *)
(* cl.stops holds the tasks that stop calls in progress await.             *)
(***************************************************************************)
IdleCleanup == [is_running |-> FALSE, task |-> 0, tasks |-> <<>>, stops |-> {}]

NewTask == [pc |-> "new", cancel |-> FALSE, outcome |-> "none"]

\* The tasks that are not done.
LiveTasks == {t \in DOMAIN cl.tasks : cl.tasks[t].pc # "done"}

\* What the other actions leave alone when the cleanup service steps.
cleanupFrame == <<execVars, wsVars, event_listeners, lsn, wn, host_zone, ep, rl, sm>>

\* start()
CleanupStart ==
    /\ IF cl.is_running
       THEN UNCHANGED cl
       ELSE /\ Len(cl.tasks) < MaxTasks
            /\ cl' = [cl EXCEPT !.is_running = TRUE,
                                !.tasks = Append(@, NewTask),
                                !.task = Len(cl.tasks) + 1]
    /\ UNCHANGED cleanupFrame

\* stop() up to `await self._task`: cancel() does nothing to a task that is
\* done, and the await of such a task returns at once.
CleanupStop ==
    /\ IF ~cl.is_running
       THEN UNCHANGED cl
       ELSE IF cl.task = 0 \/ cl.tasks[cl.task].pc = "done"
       THEN cl' = [cl EXCEPT !.is_running = FALSE]
       ELSE cl' = [cl EXCEPT !.is_running = FALSE,
                             !.tasks[cl.task].cancel = TRUE,
                             !.stops = @ \cup {cl.task}]
    /\ UNCHANGED cleanupFrame

\* `await self._task` of stop() ends, with the task's return or with its
\* CancelledError, which stop() passes over.
CleanupStopReturns(t) ==
    /\ t \in cl.stops
    /\ cl.tasks[t].pc = "done"
    /\ cl' = [cl EXCEPT !.stops = @ \ {t}]
    /\ UNCHANGED cleanupFrame

\* The task f at the test of `while self.is_running`.
LoopTest(f) ==
    IF cl.is_running THEN [f EXCEPT !.pc = "cleanup"]
    ELSE [f EXCEPT !.pc = "done", !.outcome = "returned"]

\* The task f after the await it stands at has ended with exc ("" for a
\* return): run_cleanup is followed by the sleep, its Exception by the
\* sleep of a minute, and a sleep by the test of the loop.
LoopAfter(f, exc) ==
    CASE f.pc = "new" -> LoopTest(f)
      [] f.pc = "cleanup" /\ exc = "Exception" ->
            [f EXCEPT !.pc = "retry"]
      [] f.pc = "cleanup" -> [f EXCEPT !.pc = "sleep"]
      [] OTHER -> LoopTest(f)

\* The task f after the CancelledError was thrown into it: a task that
\* never ran is cancelled, the try statement of the loop catches the
\* error and breaks, and the sleep in the Exception handler lets it out.
LoopCancelled(f) ==
    [f EXCEPT !.pc = "done", !.cancel = FALSE,
              !.outcome = IF f.pc \in {"cleanup", "sleep"}
                          THEN "returned" ELSE "cancelled"]

\* A step of the loop task t.
CleanupLoopStep(t, exc) ==
    /\ t \in LiveTasks
    /\ exc = "Exception" => cl.tasks[t].pc = "cleanup"
    /\ cl' = [cl EXCEPT !.tasks[t] =
                 IF cl.tasks[t].cancel THEN LoopCancelled(cl.tasks[t])
                 ELSE LoopAfter(cl.tasks[t], exc)]
    /\ UNCHANGED cleanupFrame

(***************************************************************************)
(* services.SessionManager (session_manager.py).  memory is the set of     *)
(* ids with an entry in _memory_sessions, db the ids with a committed row  *)
(* of UserSessionDB.  get holds the get_session / validate_session call of *)
(* each client task, del the delete_session call.  As history, issued is   *)
(* the set of ids create_session has returned, deleted the ids for which   *)
(* delete_session has returned True, and a call notes as `late` that it    *)
(* began after such a return for its id.                                   *)
(***************************************************************************)
Getters == {"g1", "g2"}

IdleGet == [pc |-> "idle", sid |-> "", update_activity |-> FALSE, via |-> "",
            row |-> FALSE, late |-> FALSE, ret |-> "none"]

IdleDelete == [pc |-> "idle", sid |-> "", ret |-> "none"]

IdleSessionManager ==
    [memory |-> {}, db |-> {}, issued |-> {}, deleted |-> {},
     get |-> [g \in Getters |-> IdleGet], del |-> IdleDelete]

sessionFrame == <<execVars, wsVars, event_listeners, lsn, wn, host_zone, ep, rl, cl>>

\* create_session(session_data): the id is a fresh uuid4 that no other
\* call can name before create_session has returned it.
CreateSession(sid) ==
    /\ sid \notin sm.issued
    /\ sm' = [sm EXCEPT !.issued = @ \cup {sid}, !.db = @ \cup {sid},
                        !.memory = @ \cup {sid}]
    /\ UNCHANGED sessionFrame

\* What the caller of the get_session call f receives: validate_session
\* returns `session is not None`, and False for an Exception.
Answer(f, r) ==
    IF f.via = "validate_session"
    THEN IF r = "session" THEN "True" ELSE "False"
    ELSE r

\* _store_active_session(session): self._memory_sessions[session_key] = ...
StoreActiveSession(memory, sid) == memory \cup {sid}

\* get_session up to its first await: the entry of the memory, or the
\* SELECT of the row.
GetCalled(g, sid, update_activity, via) ==
    /\ sm.get[g].pc = "idle"
    /\ sid \in sm.issued
    /\ LET f == [IdleGet EXCEPT !.sid = sid, !.update_activity = update_activity,
                                !.via = via, !.late = sid \in sm.deleted]
       IN  sm' = IF sid \in sm.memory
                 THEN [sm EXCEPT !.get[g] = [f EXCEPT !.ret = Answer(f, "session")],
                                 !.memory = IF update_activity
                                            THEN StoreActiveSession(@, sid) ELSE @]
                 ELSE [sm EXCEPT !.get[g] = [f EXCEPT !.pc = "select"]]
    /\ UNCHANGED sessionFrame

\* get_session(session_id, update_activity)
GetSession(g, sid, update_activity) == GetCalled(g, sid, update_activity, "get_session")

\* validate_session(session_id): get_session(session_id, update_activity=False)
ValidateSession(g, sid) == GetCalled(g, sid, FALSE, "validate_session")

\* The database executes the SELECT of get_session.
GetSelectExecutes(g) ==
    /\ sm.get[g].pc = "select"
    /\ sm' = [sm EXCEPT !.get[g].pc = "selected",
                        !.get[g].row = sm.get[g].sid \in sm.db]
    /\ UNCHANGED sessionFrame

\* The get_session call f ends by raising an Exception of the database.
GetRaised(f) == [f EXCEPT !.pc = "idle", !.ret = Answer(f, "raised")]

\* The session object is built from the row read, stored and returned.
GetStored(g) ==
    sm' = [sm EXCEPT !.get[g].pc = "idle",
                     !.get[g].ret = Answer(sm.get[g], "session"),
                     !.memory = StoreActiveSession(@, sm.get[g].sid)]

\* `await db.execute(select(...))` of get_session ends.
GetSelectReturns(g, exc) ==
    /\ sm.get[g].pc = "selected"
    /\ IF exc # "" THEN sm' = [sm EXCEPT !.get[g] = GetRaised(@)]
       ELSE IF ~sm.get[g].row
       THEN sm' = [sm EXCEPT !.get[g].pc = "idle",
                             !.get[g].ret = Answer(sm.get[g], "None")]
       ELSE IF sm.get[g].update_activity
       THEN sm' = [sm EXCEPT !.get[g].pc = "update"]
       ELSE GetStored(g)
    /\ UNCHANGED sessionFrame

\* `await db.execute(update(...))` of get_session ends: the statement
\* changes last_activity of the row when there still is one.
GetUpdateReturns(g, exc) ==
    /\ sm.get[g].pc = "update"
    /\ sm' = IF exc # "" THEN [sm EXCEPT !.get[g] = GetRaised(@)]
             ELSE [sm EXCEPT !.get[g].pc = "commit"]
    /\ UNCHANGED sessionFrame

\* `await db.commit()` of get_session ends.
GetCommitReturns(g, exc) ==
    /\ sm.get[g].pc = "commit"
    /\ IF exc # "" THEN sm' = [sm EXCEPT !.get[g] = GetRaised(@)]
       ELSE GetStored(g)
    /\ UNCHANGED sessionFrame

\* delete_session(session_id) up to its first await.
DeleteSession(sid) ==
    /\ sm.del.pc = "idle"
    /\ sid \in sm.issued
    /\ sm' = [sm EXCEPT !.memory = @ \ {sid},
                        !.del = [IdleDelete EXCEPT !.pc = "select", !.sid = sid]]
    /\ UNCHANGED sessionFrame

\* `await db.execute(select(...))` of delete_session ends.
DeleteSelectReturns(exc) ==
    /\ sm.del.pc = "select"
    /\ sm' = IF exc # "" THEN [sm EXCEPT !.del.pc = "idle", !.del.ret = "raised"]
             ELSE IF sm.del.sid \in sm.db THEN [sm EXCEPT !.del.pc = "delete"]
             ELSE [sm EXCEPT !.del.pc = "idle", !.del.ret = "False"]
    /\ UNCHANGED sessionFrame

\* `await db.delete(db_session)` ends.
DeleteDeleteReturns(exc) ==
    /\ sm.del.pc = "delete"
    /\ sm' = IF exc # "" THEN [sm EXCEPT !.del.pc = "idle", !.del.ret = "raised"]
             ELSE [sm EXCEPT !.del.pc = "commit"]
    /\ UNCHANGED sessionFrame

\* `await db.commit()` of delete_session ends, and `return True`.
DeleteCommitReturns(exc) ==
    /\ sm.del.pc = "commit"
    /\ sm' = IF exc # "" THEN [sm EXCEPT !.del.pc = "idle", !.del.ret = "raised"]
             ELSE [sm EXCEPT !.del.pc = "idle", !.del.ret = "True",
                             !.db = @ \ {sm.del.sid},
                             !.deleted = @ \cup {sm.del.sid}]
    /\ UNCHANGED sessionFrame

DbExc == {"", "Exception"}

SessionNext ==
    \/ \E sid \in Sessions : CreateSession(sid)
    \/ \E g \in Getters, sid \in Sessions, ua \in BOOLEAN : GetSession(g, sid, ua)
    \/ \E g \in Getters, sid \in Sessions : ValidateSession(g, sid)
    \/ \E g \in Getters : GetSelectExecutes(g)
    \/ \E g \in Getters, exc \in DbExc : GetSelectReturns(g, exc)
    \/ \E g \in Getters, exc \in DbExc : GetUpdateReturns(g, exc)
    \/ \E g \in Getters, exc \in DbExc : GetCommitReturns(g, exc)
    \/ \E sid \in Sessions : DeleteSession(sid)
    \/ \E exc \in DbExc : DeleteSelectReturns(exc)
    \/ \E exc \in DbExc : DeleteDeleteReturns(exc)
    \/ \E exc \in DbExc : DeleteCommitReturns(exc)

\* get_session_connection_count(session_id)
get_session_connection_count(sid) ==
    IF sid \in DOMAIN active_connections THEN Len(active_connections[sid]) ELSE 0

(***************************************************************************)
(* The rate limiter (middleware/security.py).  rl.now is the reading of    *)
(* datetime.now() in minutes, requests the deque of each key, blocked_ips  *)
(* the end of each client's block.  allowed keeps the reading of every     *)
(* call answered True, calls counts the calls made, last is the last call: *)
(* its key, its reading of the clock, its answer, whether the client was   *)
(* blocked, and how many calls of the minute before had been allowed.      *)
(***************************************************************************)
ClientIps == {"10.0.0.1", "10.0.0.2"}
EndpointTypes == {"code_execution", "ai_requests", "api_requests"}

\* f"{client_ip}:{endpoint_type}"
KeyOf(ip, type) == <<ip, type>>
LimiterKeys == {KeyOf(ip, type) : ip \in ClientIps, type \in EndpointTypes}

CodeExecutionLimit == 10
AiRequestsLimit == 20
ApiRequestsLimit == 100

\* self.limits.get(endpoint_type, self.limits['api_requests'])
LimitOf(type) ==
    CASE type = "code_execution" -> CodeExecutionLimit
      [] type = "ai_requests" -> AiRequestsLimit
      [] OTHER -> ApiRequestsLimit

\* timedelta(minutes=1) and self.block_duration, in minutes
WindowMinutes == 1
BlockDuration == 15

IdleLimiter ==
    [now |-> 0,
     requests |-> [k \in LimiterKeys |-> <<>>],
     blocked_ips |-> <<>>,
     allowed |-> [k \in LimiterKeys |-> <<>>],
     calls |-> 0,
     last |-> [key |-> <<"", "">>, at |-> 0, answer |-> FALSE,
               blocked |-> FALSE, seen |-> 0]]

\* The deque q after `while q and q[0] < cutoff: q.popleft()`.
RECURSIVE PopOld(_, _)
PopOld(q, cutoff) ==
    IF q # <<>> /\ Head(q) < cutoff THEN PopOld(Tail(q), cutoff) ELSE q

\* A variant of the limit test that lets one more request through.
LimitExceededAbove(n, limit) == n > limit

\* len(self.requests[key]) >= limit
LimitExceeded(n, limit) == n >= limit

\* The calls of the key answered True at a reading in [from, to].
AllowedWithin(key, from, to) ==
    Cardinality({i \in DOMAIN rl.allowed[key] :
                    from <= rl.allowed[key][i] /\ rl.allowed[key][i] <= to})

\* A variant of the block test that still blocks at the end of the block.
StillBlockedAtEnd(t, until) == t <= until

\* now < self.blocked_ips[client_ip]
StillBlocked(t, until) == t < until

\* The calls of a behaviour before any client is blocked go to one key.
OneKey(ip, type) == rl.calls = 0 \/ rl.last.key = KeyOf(ip, type)

\* is_allowed(client_ip, endpoint_type)
IsAllowed(ip, type) ==
    LET key == KeyOf(ip, type)
        blocked == /\ ip \in DOMAIN rl.blocked_ips
                   /\ StillBlocked(rl.now, rl.blocked_ips[ip])
        unblocked == IF ip \in DOMAIN rl.blocked_ips
                     THEN Remove(rl.blocked_ips, ip) ELSE rl.blocked_ips
        q == PopOld(rl.requests[key], rl.now - WindowMinutes)
        said(answer) ==
            [key |-> key, at |-> rl.now, answer |-> answer, blocked |-> blocked,
             seen |-> AllowedWithin(key, rl.now - WindowMinutes, rl.now)]
    IN  /\ rl.calls < MaxRequests
        /\ rl' =
             IF blocked
             THEN [rl EXCEPT !.calls = @ + 1, !.last = said(FALSE)]
             ELSE IF LimitExceeded(Len(q), LimitOf(type))
             THEN [rl EXCEPT !.calls = @ + 1, !.last = said(FALSE),
                             !.requests[key] = q,
                             !.blocked_ips =
                                 Put(unblocked, ip, rl.now + BlockDuration)]
             ELSE [rl EXCEPT !.calls = @ + 1, !.last = said(TRUE),
                             !.requests[key] = Append(q, rl.now),
                             !.blocked_ips = unblocked,
                             !.allowed[key] = Append(@, rl.now)]
        /\ UNCHANGED <<execVars, wsVars, event_listeners, lsn, wn, host_zone, ep,
                   mgrVars>>

\* A minute passes on the limiter's clock.
LimiterTick ==
    /\ rl.now < MaxMinutes
    /\ rl' = [rl EXCEPT !.now = @ + 1]
    /\ UNCHANGED <<execVars, wsVars, event_listeners, lsn, wn, host_zone, ep,
                   mgrVars>>

WsInit ==
    /\ active_connections = <<>>
    /\ connection_sessions = <<>>
    /\ session_subscribers = <<>>
    /\ bc = IdleBroadcast
    /\ connected = "none"
    /\ first_sent = [w \in Conns |-> "none"]

\* No listener is registered when HookManagerService is constructed.
SvcInit ==
    /\ event_listeners = [t \in HookEventType |-> <<>>]
    /\ lsn = [k \in Callers |-> IdleListen]
    /\ wn = IdleWrapper
    /\ host_zone = "UTC"
    /\ ep = [w \in Conns |-> IdleEndpoint]
    /\ rl = IdleLimiter
    /\ cl = IdleCleanup
    /\ sm = IdleSessionManager

(***************************************************************************)
(* The system: the orchestrator and the hook manager.                      *)
(***************************************************************************)
ExecInit ==
    /\ docker_client \in {"cli", "none"}
    /\ hook_manager \in {"installed", "none"}
    /\ enabled_hooks \in [HookEventType -> BOOLEAN]
    /\ hook_stats = [total_events |-> 0, successful_responses |-> 0,
                     failed_responses |-> 0,
                     events_by_type |-> [t \in HookEventType |-> 0]]
    /\ hook_objs = <<>>
    /\ hook_executions = <<>>
    /\ hk = [k \in Callers |-> IdleFrame]
    /\ ex = IdleExec
    /\ now = 0
    /\ calls = 0
    /\ triggers = 0

AwaitExc == {"Exception", "CancelledError"}

Next ==
    \/ \E req \in ExecutionRequest : ExecuteCode(req)
    \/ Dispatch
    \/ SpawnCompile
    \/ \E exc \in {"FileNotFoundError", "Exception", "CancelledError"} : SpawnCompileRaises(exc)
    \/ \E rc \in {0, 1} : CompileExits(rc)
    \/ \E exc \in {"TimeoutError", "CancelledError"} : CompileWaitRaises(exc)
    \/ SpawnRun
    \/ \E exc \in {"FileNotFoundError", "Exception", "CancelledError"} : SpawnRunRaises(exc)
    \/ \E rc \in ExitCodes, err \in StderrKinds : RunExits(rc, err)
    \/ \E exc \in {"TimeoutError", "CancelledError"} : RunWaitRaises(exc)
    \/ KillWaitReturns
    \/ \E rc \in ExitCodes, err \in StderrKinds : DockerReturns(rc, err)
    \/ \E exc \in {"TimeoutExpired", "FileNotFoundError", "Exception", "CancelledError"} :
          DockerRaises(exc)
    \/ Finish
    \/ \E k \in Callers : AssistantReturns(k)
    \/ \E k \in Callers, exc \in AwaitExc : AssistantRaises(k, exc)
    \/ \E k \in Callers, exc \in AwaitExc \cup {""} : SendResponseEnds(k, exc)
    \/ \E k \in Callers, exc \in AwaitExc \cup {""} : SendErrorEnds(k, exc)

Init == ExecInit /\ WsInit /\ SvcInit

Spec == Init /\ [][Next]_vars

(***************************************************************************)
(* The connection registry on its own, the other services idle.            *)
(***************************************************************************)
IdleServices ==
    /\ docker_client = "none"
    /\ hook_manager = "none"
    /\ enabled_hooks = [t \in HookEventType |-> TRUE]
    /\ hook_stats = [total_events |-> 0, successful_responses |-> 0,
                     failed_responses |-> 0,
                     events_by_type |-> [t \in HookEventType |-> 0]]
    /\ hook_objs = <<>>
    /\ hook_executions = <<>>
    /\ hk = [k \in Callers |-> IdleFrame]
    /\ ex = IdleExec
    /\ now = 0
    /\ calls = 0
    /\ triggers = 0

WsSpecInit == IdleServices /\ WsInit /\ SvcInit

WsNext ==
    \/ \E w \in Conns, sid \in Sessions, accepted \in BOOLEAN : Connect(w, sid, accepted)
    \/ \E w \in Conns : Disconnect(w)
    \/ \E sid \in Sessions : SendToSession(sid)
    \/ \E order \in Orders(DOMAIN active_connections) : BroadcastToAll(order)
    \/ BroadcastNext
    \/ \E w \in Conns : SendToConnection(w)
    \/ \E ok \in BOOLEAN : SendTextEnds(ok)

WsSpec == WsSpecInit /\ [][WsNext]_vars

(***************************************************************************)
(* The orchestrator under the scheduling the sandbox guarantees: the event *)
(* loop runs a task that is ready, and every wait on a sandbox process     *)
(* ends, by its exit or by its timeout.  Nothing bounds the Assistant or   *)
(* a WebSocket send.                                                       *)
(***************************************************************************)
SandboxStep ==
    \/ Dispatch
    \/ SpawnCompile
    \/ \E rc \in {0, 1} : CompileExits(rc)
    \/ \E exc \in {"TimeoutError"} : CompileWaitRaises(exc)
    \/ SpawnRun
    \/ \E rc \in ExitCodes, err \in StderrKinds : RunExits(rc, err)
    \/ \E exc \in {"TimeoutError"} : RunWaitRaises(exc)
    \/ KillWaitReturns
    \/ \E rc \in ExitCodes, err \in StderrKinds : DockerReturns(rc, err)
    \/ \E exc \in {"TimeoutExpired"} : DockerRaises(exc)
    \/ Finish

FairSpec == Init /\ [][Next]_vars /\ WF_vars(SandboxStep)

(***************************************************************************)
(* The hook manager on its own, driven by the hooks API and the file       *)
(* manager; no execute_code call is made.                                  *)
(***************************************************************************)
HookSpecInit ==
    /\ docker_client = "none"
    /\ hook_manager = "installed"
    /\ enabled_hooks = [t \in HookEventType |-> TRUE]
    /\ hook_stats = [total_events |-> 0, successful_responses |-> 0,
                     failed_responses |-> 0,
                     events_by_type |-> [t \in HookEventType |-> 0]]
    /\ hook_objs = <<>>
    /\ hook_executions = <<>>
    /\ hk = [k \in Callers |-> IdleFrame]
    /\ ex = IdleExec
    /\ now = 0
    /\ calls = 0
    /\ triggers = 0
    /\ WsInit
    /\ SvcInit

HookNext ==
    \/ \E t \in HookEventType, sid \in Sessions : ApiTrigger(t, sid)
    \/ \E t \in HookEventType : EnableHook(t)
    \/ \E t \in HookEventType : DisableHook(t)
    \/ Tick
    \/ \E k \in Callers : AssistantReturns(k)
    \/ \E k \in Callers, exc \in AwaitExc : AssistantRaises(k, exc)
    \/ \E k \in Callers, exc \in AwaitExc \cup {""} : SendResponseEnds(k, exc)
    \/ \E k \in Callers, exc \in AwaitExc \cup {""} : SendErrorEnds(k, exc)

HookSpec == HookSpecInit /\ [][HookNext]_vars

(***************************************************************************)
(* The hook manager with listeners: triggers of two event types for one    *)
(* session, while listeners are registered and unregistered.               *)
(***************************************************************************)
ListenTypes == {"on_run", "on_save"}

ListenerNext ==
    \/ \E t \in ListenTypes : ApiTrigger(t, "s1")
    \/ \E t \in ListenTypes, l \in Listeners : RegisterListener(t, l)
    \/ \E t \in ListenTypes, l \in Listeners : UnregisterListener(t, l)
    \/ \E k \in Callers : AssistantReturns(k)
    \/ \E k \in Callers, exc \in AwaitExc : AssistantRaises(k, exc)
    \/ \E k \in Callers, exc \in AwaitExc \cup {""} : SendResponseEnds(k, exc)
    \/ \E k \in Callers, exc \in AwaitExc \cup {""} : SendErrorEnds(k, exc)
    \/ \E k \in Callers, exc \in AwaitExc \cup {""} : ListenerEnds(k, exc)

ListenerSpec == HookSpecInit /\ [][ListenerNext]_vars

(***************************************************************************)
(* The WebSocket endpoint serving its connections.                         *)
(***************************************************************************)
EndpointNext ==
    \/ \E w \in Conns, sid \in Sessions, accepted \in BOOLEAN :
          WebsocketEndpoint(w, sid, accepted)
    \/ \E w \in Conns, frame \in EndpointFrames : ReceiveText(w, frame)
    \/ \E w \in Conns, exc \in {"WebSocketDisconnect"} \cup AwaitExc :
          ReceiveRaises(w, exc)
    \/ \E w \in Conns, exc \in AwaitExc \cup {""} : ChatEnds(w, exc)
    \/ \E w \in Conns, exc \in AwaitExc \cup {""} : EndpointSendEnds(w, exc)

EndpointSpec == WsSpecInit /\ [][EndpointNext]_vars

(***************************************************************************)
(* The cleanup service under start and stop calls.                         *)
(***************************************************************************)
CleanupNext ==
    \/ CleanupStart
    \/ CleanupStop
    \/ \E t \in 1..MaxTasks : CleanupStopReturns(t)
    \/ \E t \in 1..MaxTasks, exc \in {"", "Exception"} : CleanupLoopStep(t, exc)

CleanupSpec == WsSpecInit /\ [][CleanupNext]_vars

(***************************************************************************)
(* The rate limiter under the calls of one client to one endpoint type.    *)
(***************************************************************************)
LimiterNext ==
    \/ \E ip \in ClientIps, type \in EndpointTypes : OneKey(ip, type) /\ IsAllowed(ip, type)
    \/ LimiterTick

LimiterSpec == WsSpecInit /\ [][LimiterNext]_vars

(***************************************************************************)
(* The rate limiter blocking a client.  Until a client is blocked the      *)
(* calls go to one key within the first minutes; a client with an entry    *)
(* in blocked_ips calls every endpoint type, and the clock then moves by   *)
(* a minute or by a minute less than the block lasts.                      *)
(***************************************************************************)
BlockedCall(ip, type) ==
    /\ rl.calls < MaxBlockCalls
    /\ OneKey(ip, type) \/ ip \in DOMAIN rl.blocked_ips
    /\ IsAllowed(ip, type)

\* The readings of the clock that differ.
LimiterWait(d) ==
    /\ rl.blocked_ips # <<>>
    /\ rl.now + d <= BlockDuration + MaxMinutes
    /\ d = 1 => rl.now >= BlockDuration - 1
    /\ rl' = [rl EXCEPT !.now = @ + d]
    /\ UNCHANGED <<execVars, wsVars, event_listeners, lsn, wn, host_zone, ep,
                   mgrVars>>

BlockNext ==
    \/ \E ip \in ClientIps, type \in EndpointTypes : BlockedCall(ip, type)
    \/ LimiterTick
    \/ \E d \in {1, BlockDuration - 1} : LimiterWait(d)

BlockSpec == WsSpecInit /\ [][BlockNext]_vars

(***************************************************************************)
(* The hook manager with its history pruned, on a host of either zone.     *)
(***************************************************************************)
HistoryInit ==
    /\ docker_client = "none"
    /\ hook_manager = "installed"
    /\ enabled_hooks = [t \in HookEventType |-> TRUE]
    /\ hook_stats = [total_events |-> 0, successful_responses |-> 0,
                     failed_responses |-> 0,
                     events_by_type |-> [t \in HookEventType |-> 0]]
    /\ hook_objs = <<>>
    /\ hook_executions = <<>>
    /\ hk = [k \in Callers |-> IdleFrame]
    /\ ex = IdleExec
    /\ now = 0
    /\ calls = 0
    /\ triggers = 0
    /\ WsInit
    /\ event_listeners = [t \in HookEventType |-> <<>>]
    /\ lsn = [k \in Callers |-> IdleListen]
    /\ wn = IdleWrapper
    /\ host_zone \in HostZones
    /\ ep = [w \in Conns |-> IdleEndpoint]
    /\ rl = IdleLimiter
    /\ cl = IdleCleanup
    /\ sm = IdleSessionManager

OlderThanHours == {0, 1}

HistoryNext ==
    \/ \E t \in ListenTypes : ApiTrigger(t, "s1")
    \/ Tick
    \/ \E h \in OlderThanHours : ClearExecutionHistory(h)
    \/ \E k \in Callers : AssistantReturns(k)
    \/ \E k \in Callers, exc \in AwaitExc : AssistantRaises(k, exc)
    \/ \E k \in Callers, exc \in AwaitExc \cup {""} : SendResponseEnds(k, exc)
    \/ \E k \in Callers, exc \in AwaitExc \cup {""} : SendErrorEnds(k, exc)

HistorySpec == HistoryInit /\ [][HistoryNext]_vars

(***************************************************************************)
(* The orchestrator called through execute_code_with_notifications.  The   *)
(* return of execute_code and the statement after it are two steps here;   *)
(* no other task of this specification can run between them.               *)
(***************************************************************************)
NotifyInit ==
    /\ Init
    /\ enabled_hooks = [t \in HookEventType |-> TRUE]

NotifyNext ==
    \/ \E req \in {r \in ExecutionRequest : ~r.trigger_hooks}, notify_hooks \in BOOLEAN :
          ExecuteCodeWithNotifications(req, notify_hooks)
    \/ \E exc \in AwaitExc \cup {""} : NotifyStartEnds(exc)
    \/ ExecuteCodeEnds
    \/ \E exc \in AwaitExc \cup {""} : NotifyCompleteEnds(exc)
    \/ Tick
    \/ SandboxStep
    \/ \E exc \in {"FileNotFoundError", "Exception", "CancelledError"} : SpawnCompileRaises(exc)
    \/ \E exc \in {"CancelledError"} : CompileWaitRaises(exc)
    \/ \E exc \in {"FileNotFoundError", "Exception", "CancelledError"} : SpawnRunRaises(exc)
    \/ \E exc \in {"CancelledError"} : RunWaitRaises(exc)
    \/ \E exc \in {"FileNotFoundError", "Exception", "CancelledError"} : DockerRaises(exc)

NotifySpec == NotifyInit /\ [][NotifyNext]_vars

(***************************************************************************)
(* Properties.                                                             *)
(***************************************************************************)
HookObjs == {hook_objs[i] : i \in DOMAIN hook_objs}

\* The hooks triggered by the execute_code call.
ExecHooks == {o \in HookObjs : o.origin = "exec"}

\* C1: every way an execute_code call ends is the return of exactly one
\* ExecutionResult: validation failure, unsupported language, backend
\* unavailable, timeout, non-zero exit, success and hook failure all end in
\* a result; nothing but the cancellation of the calling task leaves the
\* call as an exception.
C1_AlwaysReturnsOneResult ==
    /\ ex.pc = "raised" => ex.exc = "CancelledError" /\ ex.returned = 0
    /\ ex.pc = "done" => ex.returned = 1 /\ HasResult(ex)
    /\ ex.pc \notin {"done"} => ex.returned = 0

\* The call returned its result after a timed-out step and a failed
\* on_error hook.
C1_Witness ==
    /\ ex.pc = "done"
    /\ ex.returned = 1
    /\ ex.sbx.ev = "TimeoutError"
    /\ \E o \in ExecHooks : o.event_type = "on_error" /\ o.status = "failed"

\* C2: when validation of the submitted code yields an error, the call
\* returns exit_code 1 with the validation message in stderr and no sandbox
\* process is ever started, whichever backend is in use.
C2_ValidationFailureNeverRuns ==
    (ex.pc # "idle" /\ ValidateCode(ex.req.code, ex.req.language) # "") =>
        /\ ex.started = <<>>
        /\ ex.pc = "done" =>
              /\ ex.result.exit_code = 1
              /\ ex.result.stderr.msg = ValidateCode(ex.req.code, ex.req.language)

\* C3: a result has exit_code 124 exactly when it has timed_out set.
C3_ExitCode124IffTimedOut ==
    HasResult(ex) => (ex.result.exit_code = 124 <=> ex.result.timed_out)

\* C4: when the timeout expires in any step, compilation included, the
\* process is killed and the result is exit_code 124, timed_out, empty
\* stdout and "Execution timed out after N seconds"; never the generic
\* exit_code 1 result.
C4_TimeoutKillsAndReports124 ==
    (ex.pc = "done" /\ ex.sbx.ev \in {"TimeoutError", "TimeoutExpired"}) =>
        /\ ex.alive = {}
        /\ ex.result = ExecutionResult("", TimeoutMsg(ex.wait), 124, TRUE)

\* A send to w failed during the call b.
SendFailed(b, w) == b.attempts[w] > b.delivered[w]

Registered(w, sid) ==
    /\ sid \in DOMAIN active_connections
    /\ w \in Range(active_connections[sid])

\* C5: when a send_to_session call, undisturbed by connects and
\* disconnects, has returned, every connection of the session whose send
\* did not fail has received the message once and is still registered, and
\* every connection whose send failed is registered no more, wherever in
\* the list the failing connection stood.
C5_BroadcastResilience ==
    (bc.pc = "done" /\ bc.clean /\ bc.disturbed = 0) =>
        \A w \in Range(bc.start) :
            IF SendFailed(bc, w)
            THEN ~Registered(w, bc.sid) /\ w \notin DOMAIN connection_sessions
            ELSE bc.delivered[w] = 1 /\ Registered(w, bc.sid)

\* C6: a send_to_session call iterates the connections as they were when
\* it started: with a connect or a disconnect interleaved at a send, and
\* no send failing, every connection registered at the start and not
\* disconnected since gets exactly one send attempt, and a connection
\* registered after the start gets none.
C6_IteratesSnapshot ==
    (/\ bc.pc = "done" /\ bc.clean /\ bc.disturbed > 0
     /\ \A w \in Conns : ~SendFailed(bc, w)) =>
        \A w \in Conns :
            /\ (w \in Range(bc.start) /\ w \notin bc.gone) => bc.attempts[w] = 1
            /\ w \notin Range(bc.start) => bc.attempts[w] = 0

\* C7: every HookExecution whose trigger_hook call has ended, by a return
\* or by the cancellation of the awaiting task, is completed or failed.
C7_EveryHookEndsTerminal ==
    \A o \in HookObjs : o.call # "active" => o.status \in {"completed", "failed"}

\* C8: with the sandbox making progress, an execute_code call that has
\* started ends with its result, however long the Assistant takes to react.
C8_HookNeverBlocksExecution ==
    (ex.pc # "idle") ~> (ex.pc \in {"done", "raised"})

\* The result of a request under a backend, from what the sandbox did;
\* no hook, hook flag or hook outcome enters.
ExpectedTimeout(mode, req) ==
    IF mode = "none" THEN Min(req.timeout, 30)
    ELSE Min(req.timeout, IF req.language = "java" THEN 45 ELSE 30)

ExpectedResult(mode, req, sbx) ==
    LET Error(m) == ExecutionResult("", Msg(m, 0), 1, FALSE)
        t == ExpectedTimeout(mode, req)
    IN  IF mode = "none" /\ req.language = "c" THEN Error("Unsupported language")
        ELSE IF mode = "cli" /\ req.code = "import_ctypes"
        THEN Error("Security validation failed")
        ELSE IF mode = "cli" /\ req.language = "c" THEN Error("Unsupported language")
        ELSE IF sbx.ev = "exit" /\ sbx.step = "compile" /\ sbx.rc # 0
        THEN Error("Compilation error")
        ELSE IF sbx.ev = "exit" /\ sbx.step = "run"
        THEN ExecutionResult("out", Msg(sbx.err, 0), sbx.rc, FALSE)
        ELSE IF sbx.ev = "exit" /\ sbx.step = "docker"
        THEN ExecutionResult("out",
                 Msg(IF sbx.rc # 0 /\ sbx.err = "traceback" THEN "formatted"
                     ELSE sbx.err, 0),
                 sbx.rc, FALSE)
        ELSE IF sbx.ev = "FileNotFoundError"
        THEN Error(IF mode = "none" THEN "Runtime not available" ELSE "Container error")
        ELSE IF sbx.ev = "TimeoutError" /\ sbx.step = "run"
        THEN ExecutionResult("", TimeoutMsg(t), 124, TRUE)
        ELSE IF sbx.ev = "TimeoutExpired"
        THEN ExecutionResult("", TimeoutMsg(t), 124, FALSE)
        ELSE IF sbx.ev \in {"TimeoutError", "Exception"} THEN Error("Execution error")
        ELSE NoResult

\* C9: the result an execute_code call returns is the one the backend, the
\* request and the sandbox determine, whatever the hooks did; and the call
\* starts each sandbox process at most once, hook failure or not.
C9_ResultIndependentOfHooks ==
    /\ ex.pc = "done" => ex.result = ExpectedResult(docker_client, ex.req, ex.sbx)
    /\ ex.started \in {<<>>, <<"compile">>, <<"run">>, <<"compile", "run">>,
                       <<"docker">>}

\* The call returned a successful run although a hook of it had failed.
C9_Witness ==
    /\ ex.pc = "done"
    /\ ex.result.exit_code = 0
    /\ ex.started # <<>>
    /\ \E o \in ExecHooks : o.status = "failed"

C11_DisabledHookIsNoOp ==
    [][\A t \in HookEventType, sid \in Sessions :
          (ApiTrigger(t, sid) /\ ~enabled_hooks[t]) =>
              /\ UNCHANGED <<hook_stats, hook_objs, hook_executions>>
              /\ hk'["api"] = [pc |-> "idle", obj |-> 0, ret |-> "None"]]_vars

\* A hook was triggered while its type was disabled.
C11_Witness ==
    /\ triggers > 0
    /\ hk["api"] = [pc |-> "idle", obj |-> 0, ret |-> "None"]
    /\ hook_objs = <<>>
    /\ hook_stats.total_events = 0

\* The sum of the per-type counters.
EventsByTypeSum ==
    hook_stats.events_by_type["on_run"] + hook_stats.events_by_type["on_error"]
      + hook_stats.events_by_type["on_save"]

\* C12: total_events equals the sum of the per-type counters,
\* successful_responses + failed_responses never exceeds total_events, and
\* the two are equal whenever no trigger_hook call is in flight.
C12_CounterAccounting ==
    /\ hook_stats.total_events = EventsByTypeSum
    /\ hook_stats.successful_responses + hook_stats.failed_responses
         <= hook_stats.total_events
    /\ (\A k \in Callers : hk[k].pc = "idle") =>
          hook_stats.successful_responses + hook_stats.failed_responses
            = hook_stats.total_events

\* C13: a trigger whose Assistant call raised ends failed with the error
\* stored, returns None, runs no listener and pushes exactly one
\* notification, an error; a trigger whose Assistant call returned pushes
\* exactly one notification, the reaction; failed_responses counts the
\* first kind and successful_responses the second; and no exception other
\* than the cancellation of the awaiting task leaves trigger_hook.
C13_FailureAndSuccessNotifyOnce ==
    /\ \A o \in HookObjs :
          /\ o.status = "failed" =>
                /\ o.error /\ ~o.ai_response /\ ~o.listened
                /\ o.call = "returned" => o.ret = "None" /\ o.pushed = <<"error">>
          /\ o.status = "completed" =>
                /\ o.ai_response /\ ~o.error
                /\ o.call = "returned" =>
                      o.ret = "response" /\ o.pushed = <<"ghost_response">>
          /\ o.call = "raised" => o.exc = "CancelledError"
    /\ hook_stats.failed_responses
         = Cardinality({i \in DOMAIN hook_objs : hook_objs[i].status = "failed"})
    /\ hook_stats.successful_responses
         = Cardinality({i \in DOMAIN hook_objs : hook_objs[i].status = "completed"})

\* One trigger failed and one succeeded, and both calls returned.
C13_Witness ==
    /\ \E o \in HookObjs : o.status = "failed" /\ o.call = "returned"
    /\ \E o \in HookObjs : o.status = "completed" /\ o.call = "returned"
    /\ hook_stats.failed_responses = 1
    /\ hook_stats.successful_responses = 1

\* C14: success_rate is defined in every state; with N counted triggers,
\* S of them answered by the Assistant, it is S / N * 100, and 0 when
\* nothing was counted.
C14_SuccessRate ==
    LET N == Len(hook_objs)
        S == Cardinality({i \in DOMAIN hook_objs : hook_objs[i].ai_response})
        rate == get_hook_statistics.success_rate
    IN  /\ rate.den > 0
        /\ hook_stats.total_events = N
        /\ IF N = 0 THEN rate.num = 0
           ELSE rate.num * N = S * 100 * rate.den

\* Two triggers were counted, one of them answered and one still in flight.
C14_Witness ==
    /\ Len(hook_objs) = 2
    /\ hook_stats.successful_responses = 1
    /\ hook_stats.failed_responses = 0
    /\ hk["api"].pc = "react"

\* The sessions whose connection list holds the connection w.
SessionsOf(w) ==
    {sid \in DOMAIN active_connections : w \in Range(active_connections[sid])}

\* C15: a connection belongs to at most one session, also when the same
\* connection is connected again under another session id without a
\* disconnect in between.
C15_AtMostOneSession == \A w \in Conns : Cardinality(SessionsOf(w)) <= 1

\* C16: a connect whose accept fails returns false and leaves
\* active_connections, connection_sessions and session_subscribers as they
\* were (no empty session entry appears); a connect whose accept succeeds
\* returns true, appends the connection to the list of the given session,
\* indexes it under that session and changes no other session's list.
C16_ConnectRegistersOnlyOnAccept ==
    [][\A w \in Conns, sid \in Sessions :
          /\ Connect(w, sid, FALSE) =>
                /\ connected' = "false"
                /\ UNCHANGED <<active_connections, connection_sessions,
                               session_subscribers>>
          /\ Connect(w, sid, TRUE) =>
                /\ connected' = "true"
                /\ DOMAIN active_connections' = DOMAIN active_connections \cup {sid}
                /\ active_connections'[sid] =
                       Append(IF sid \in DOMAIN active_connections
                              THEN active_connections[sid] ELSE <<>>, w)
                /\ connection_sessions'[w] = sid
                /\ \A o \in DOMAIN active_connections \ {sid} :
                       active_connections'[o] = active_connections[o]
                /\ \A o \in DOMAIN connection_sessions \ {w} :
                       connection_sessions'[o] = connection_sessions[o]]_vars

\* A connect failed at accept while another connection was registered: the
\* registry holds that connection and nothing else.
C16_Witness ==
    /\ connected = "false"
    /\ active_connections = [sid \in {"s1"} |-> <<"w1">>]
    /\ connection_sessions = [w \in {"w1"} |-> "s1"]
    /\ DOMAIN session_subscribers = {"s1"}

\* get_active_sessions(): the session ids that have an entry.
get_active_sessions == DOMAIN active_connections

\* C17: after disconnect(conn) the connection is in no session's
\* connection list and not in connection_sessions, no session is left with
\* an empty connection list, and get_active_sessions gives exactly the
\* sessions that have a connection.
C17_DisconnectRemovesEverywhere ==
    [][\A w \in Conns :
          Disconnect(w) =>
              /\ w \notin DOMAIN connection_sessions'
              /\ \A sid \in DOMAIN active_connections' :
                     /\ w \notin Range(active_connections'[sid])
                     /\ active_connections'[sid] # <<>>
              /\ get_active_sessions' =
                     {sid \in Sessions :
                         /\ sid \in DOMAIN active_connections'
                         /\ Len(active_connections'[sid]) >= 1}]_vars

\* C18: send_to_session for a session that has no connections returns at
\* once, without an error and without a send, and leaves the registry as it
\* was: the session gets no entry.
C18_SendToEmptySessionIsNoOp ==
    [][\A sid \in Sessions :
          (SendToSession(sid) /\ sid \notin DOMAIN active_connections) =>
              /\ bc'.pc = "done"
              /\ \A w \in Conns : bc'.attempts[w] = 0
              /\ sid \notin DOMAIN active_connections'
              /\ UNCHANGED <<active_connections, connection_sessions,
                             session_subscribers>>]_vars

\* send_to_session("s2") has returned without a send while s1 had a
\* connection and s2 had none.
C18_Witness ==
    /\ bc.pc = "done" /\ bc.kind = "session" /\ bc.sid = "s2"
    /\ bc.start = <<>>
    /\ \A w \in Conns : bc.attempts[w] = 0
    /\ DOMAIN active_connections = {"s1"}

\* C19: a send_to_connection call delivers to its connection only; when the
\* send fails the call returns without raising, the connection is in no
\* connection list and not in connection_sessions, no session is left with
\* an empty list, and every other connection stays where it was registered.
C19_SendToOne ==
    [][(bc.kind = "one" /\ bc.pc = "sending") =>
          /\ SendTextEnds(TRUE) =>
                /\ bc'.pc = "done"
                /\ bc'.delivered = [bc.delivered EXCEPT ![bc.cur] = @ + 1]
                /\ bc'.attempts = bc.attempts
                /\ UNCHANGED <<active_connections, connection_sessions,
                               session_subscribers>>
          /\ SendTextEnds(FALSE) =>
                /\ bc'.pc = "done"
                /\ bc'.delivered = bc.delivered
                /\ bc.cur \notin DOMAIN connection_sessions'
                /\ \A sid \in DOMAIN active_connections' :
                       /\ bc.cur \notin Range(active_connections'[sid])
                       /\ active_connections'[sid] # <<>>
                /\ \A sid \in DOMAIN active_connections :
                       \A o \in Range(active_connections[sid]) \ {bc.cur} :
                           /\ sid \in DOMAIN active_connections'
                           /\ o \in Range(active_connections'[sid])]_vars

\* A send_to_session call, made on its own or by broadcast_to_all, begins a
\* send in this step.
SendStarts ==
    /\ bc'.pc = "sending" /\ bc'.kind = "session"
    /\ bc.pc # "sending" \/ bc'.idx # bc.idx

\* C20: once disconnect(conn) has returned, no send_to_session and no
\* broadcast_to_all begins a send on conn until conn is connected again.
C20_NoSendAfterDisconnect == [][SendStarts => bc'.cur \notin bc'.banned]_vars

\* C21: in every backend mode and for every language, the wait bound of an
\* execution is min(request.timeout, timeout of the language's
\* LanguageConfig).
C21_WaitBoundIsMinOfRequestAndConfig ==
    ex.wait > 0 => ex.wait = Min(ex.req.timeout, ConfigTimeout(ex.req.language))

\* The number of occurrences of x in the sequence q.
Count(q, x) == Cardinality({i \in DOMAIN q : q[i] = x})

\* C22: when a successful trigger has returned its response, every listener
\* that was registered for the event type when the listeners were called,
\* and was neither registered nor unregistered meanwhile, has been invoked
\* once for each of its registrations, also after another listener raised;
\* with no registration or unregistration meanwhile the listeners were
\* invoked in registration order.
C22_EveryListenerInvokedOnce ==
    \A k \in Callers :
        (hk[k].pc = "idle" /\ hk[k].ret = "response") =>
            /\ \A l \in Listeners \ lsn[k].touched :
                   Count(lsn[k].invoked, l) = Count(lsn[k].start, l)
            /\ lsn[k].touched = {} => lsn[k].invoked = lsn[k].start

C24_ConnectConfirmationFirst ==
    [][\A w \in Conns, sid \in Sessions :
          Connect(w, sid, TRUE) => first_sent'[w] = "connect"]_vars

\* The notifications of the given type that the call handed to
\* send_to_session.
SentOfType(type) == {i \in DOMAIN wn.sent : wn.sent[i].type = type}

\* C25: a call of execute_code_with_notifications sends one execution_start
\* notification, before the code is dispatched, and at most one
\* execution_complete notification, which carries a result; when the call
\* has returned it has sent the start and then the complete notification,
\* both with the execution_id of the call and the second with the result
\* that is returned, also when sends of notifications failed; the call ends
\* by raising only when its task is cancelled.
C25_OneStartOneComplete ==
    /\ wn.pc # "idle" =>
          /\ SentOfType("execution_start") = {1}
          /\ Cardinality(SentOfType("execution_complete")) <= 1
          /\ \A i \in DOMAIN wn.sent : wn.sent[i].execution_id = wn.execution_id
          /\ \A i \in SentOfType("execution_complete") :
                 wn.sent[i].result # NoResult /\ wn.sent[i].result = wn.result
    /\ wn.pc = "notify_start" => ex.pc \in {"idle", "done", "raised"}
    /\ wn.pc = "done" =>
          /\ wn.returned = 1
          /\ wn.sent = <<Notification("execution_start", wn.execution_id, NoResult),
                         Notification("execution_complete", wn.execution_id, wn.ret)>>
    /\ wn.pc # "done" => wn.returned = 0
    /\ wn.pc = "raised" => wn.exc = "CancelledError"

\* The call has returned the result of a failed run although both of its
\* notification sends raised.
C25_Witness ==
    /\ wn.pc = "done" /\ wn.failed = 2
    /\ wn.ret = ex.result /\ wn.ret.exit_code = 1
    /\ Len(wn.sent) = 2

\* C26: when a call of execute_code_with_notifications with notify_hooks =
\* true has returned, and a hook manager is installed, the on_run hook was
\* triggered for the execution, and the on_error hook if the result has a
\* non-zero exit code; with notify_hooks = false no hook was triggered.
C26_NotifyHooksTriggersHooks ==
    wn.pc = "done" =>
        IF wn.notify_hooks /\ hook_manager = "installed"
        THEN /\ ex.invoked.on_run = 1
             /\ ex.invoked.on_error = IF wn.ret.exit_code # 0 THEN 1 ELSE 0
        ELSE ex.invoked.on_run = 0 /\ ex.invoked.on_error = 0

\* The age in hours of the record with the given id.
AgeOf(id) == now - hook_objs[hook_executions[id]].started_at

\* C27: clear_execution_history(h) removes exactly the records whose
\* started_at is more than h hours before now, keeps every other record as
\* it is, and leaves the counters and the enable flags unchanged.
C27_ClearRemovesExactlyOld ==
    [][\A h \in OlderThanHours :
          ClearExecutionHistory(h) =>
              /\ DOMAIN hook_executions' =
                     {id \in DOMAIN hook_executions : ~(AgeOf(id) > h)}
              /\ \A id \in DOMAIN hook_executions' :
                     hook_executions'[id] = hook_executions[id]
              /\ UNCHANGED <<hook_objs, hook_stats, enabled_hooks>>]_vars

C29_EndedConnectionRemoved ==
    \A w \in Conns :
        ep[w].pc = "done" =>
            /\ w \notin DOMAIN connection_sessions
            /\ \A sid \in DOMAIN active_connections :
                  w \notin Range(active_connections[sid])
            /\ get_session_connection_count(ep[w].sid) =
                  Cardinality({v \in Conns \ {w} : RegisteredTo(v, ep[w].sid)})

\* The loop of the only connection of a session ended by an exception
\* other than the client's disconnect, and the session has no entry left.
C29_Witness ==
    \E w \in Conns :
        /\ ep[w].pc = "done"
        /\ get_session_connection_count(ep[w].sid) = 0
        /\ ep[w].sid \notin DOMAIN active_connections
        /\ \E v \in Conns \ {w} : ep[v].pc = "receive"

C31_AtMostOneLoopTask ==
    /\ [](Cardinality(LiveTasks) <= 1)
    /\ [][(CleanupStart /\ cl.is_running) => UNCHANGED cl]_vars
    /\ [][(CleanupStop /\ ~cl.is_running) => UNCHANGED cl]_vars
    /\ [][(CleanupStop /\ cl.is_running) =>
            /\ ~cl'.is_running
            /\ cl.task # 0 =>
                  cl'.tasks[cl.task].cancel \/ cl'.tasks[cl.task].pc = "done"]_vars
    /\ [][(CleanupStart /\ ~cl.is_running) =>
            /\ cl'.is_running
            /\ cl'.task \in LiveTasks'
            /\ cl'.task \notin DOMAIN cl.tasks]_vars

\* C32: while is_running is true an Exception of run_cleanup does not end
\* the loop, and run_cleanup is called again after the wait; a
\* cancellation received during a wait between two runs ends the loop
\* and the awaiter of the loop gets no CancelledError.
C32_LoopSurvivesFailure ==
    [][\A t \in DOMAIN cl.tasks :
          /\ (CleanupLoopStep(t, "Exception") /\ ~cl.tasks[t].cancel) =>
                cl'.tasks[t].pc = "retry"
          /\ (CleanupLoopStep(t, "") /\ cl.tasks[t].pc = "retry"
                /\ ~cl.tasks[t].cancel /\ cl.is_running) =>
                cl'.tasks[t].pc = "cleanup"
          /\ (CleanupLoopStep(t, "") /\ cl.tasks[t].pc \in {"sleep", "retry"}
                /\ cl.tasks[t].cancel) =>
                cl'.tasks[t].pc = "done" /\ cl'.tasks[t].outcome = "returned"]_vars

\* sum(len(connections) for connections in active_connections.values()),
\* over the sessions S.
RECURSIVE SumOfLengths(_)
SumOfLengths(S) ==
    IF S = {} THEN 0
    ELSE LET sid == CHOOSE x \in S : TRUE
         IN  Len(active_connections[sid]) + SumOfLengths(S \ {sid})

\* get_total_connections()
get_total_connections == SumOfLengths(DOMAIN active_connections)

\* C33: after any sequence of connect, disconnect and send operations,
\* connection_sessions maps a connection to a session exactly when the
\* connection occurs in that session's list, no connection occurs twice
\* in a list, and get_total_connections is the number of entries of
\* connection_sessions.
C33_RegistryIndexConsistent ==
    /\ \A w \in Conns, sid \in Sessions :
          (w \in DOMAIN connection_sessions /\ connection_sessions[w] = sid)
              <=> sid \in SessionsOf(w)
    /\ \A sid \in DOMAIN active_connections :
          \A i, j \in DOMAIN active_connections[sid] :
              active_connections[sid][i] = active_connections[sid][j] => i = j
    /\ get_total_connections = Cardinality(DOMAIN connection_sessions)

\* C34: send_to_session(s, m) begins a send only on a connection that
\* connection_sessions maps to s; a connection registered to another
\* session gets no message addressed to s.
C34_SessionIsolation ==
    [][SendStarts =>
          /\ bc'.cur \in DOMAIN connection_sessions'
          /\ connection_sessions'[bc'.cur] = bc'.sid]_vars


(***************************************************************************)
(* The hook history as a record of the triggers.                           *)
(***************************************************************************)

\* C35: every enabled trigger_hook adds exactly one new record to the
\* history and overwrites none, so that without pruning total_executions
\* equals total_events, also when two triggers of one session and event
\* type read the same clock value.
C35_OneRecordPerTrigger ==
    /\ [](get_hook_statistics.total_executions = hook_stats.total_events)
    /\ [][\A t \in HookEventType, sid \in Sessions :
            (ApiTrigger(t, sid) /\ enabled_hooks[t]) =>
               /\ Cardinality(DOMAIN hook_executions')
                    = Cardinality(DOMAIN hook_executions) + 1
               /\ \A id \in DOMAIN hook_executions :
                     hook_executions'[id] = hook_executions[id]]_vars

\* Two triggers were counted and the history holds one record.
C35_Overwritten ==
    /\ hook_stats.total_events = 2
    /\ get_hook_statistics.total_executions = 1



\* C36: when send_to_session raises in _send_ai_response after the
\* Assistant answered, the record stays completed with the response
\* stored, the listener loop runs as after a delivered notification,
\* trigger_hook returns the response, and the trigger is counted once in
\* successful_responses and not in failed_responses.
C36_SendFailureKeepsOutcome ==
    /\ [](/\ \A o \in HookObjs :
                o.send = "Exception" =>
                   /\ o.status = "completed" /\ o.ai_response /\ ~o.error
                   /\ o.call = "returned" => o.ret = "response" /\ o.listened
                   /\ o.call = "raised" => o.exc = "CancelledError"
          /\ hook_stats.successful_responses
               = Cardinality({i \in DOMAIN hook_objs : hook_objs[i].ai_response})
          /\ hook_stats.failed_responses
               = Cardinality({i \in DOMAIN hook_objs : hook_objs[i].error}))
    /\ [][\A k \in Callers :
            SendResponseEnds(k, "Exception") =>
               /\ hook_stats' = hook_stats
               /\ hook_objs'[hk[k].obj].status = "completed"
               /\ hook_objs'[hk[k].obj].ai_response
               /\ lsn'[k] = ListenFrom([IdleListen EXCEPT
                                           !.start = event_listeners[TypeOf(k)]],
                                       event_listeners[TypeOf(k)])
               /\ \/ hk'[k].pc = "listen"
                  \/ hk'[k].pc = "idle" /\ hk'[k].ret = "response"]_vars

\* The notification of an answered trigger was not delivered, a listener
\* ran after it and the trigger returned the response.
C36_Witness ==
    /\ \E o \in HookObjs :
          /\ o.send = "Exception" /\ o.call = "returned" /\ o.ret = "response"
          /\ lsn[o.origin].invoked # <<>>
    /\ hook_stats.successful_responses = 1
    /\ hook_stats.failed_responses = 0



(***************************************************************************)
(* The synchronous /execute endpoint (api/endpoints/execution.py): one     *)
(* client whose requests follow one another.  `triggers` counts the        *)
(* requests that have passed _trigger_execution_hooks.                     *)
(***************************************************************************)

\* `result = await code_execution_service.execute_code(request)`:
\* trigger_hooks keeps its default, True.
HttpExecuteCode(req) ==
    /\ req.trigger_hooks
    /\ calls = triggers \/ ex.pc = "raised"
    /\ ExecuteCode(req)

\* `event_type = ON_RUN if payload.get("exit_code", 0) == 0 else ON_ERROR`
HttpEventType(res) == IF res.exit_code = 0 THEN "on_run" ELSE "on_error"

\* execute_code has returned: _trigger_execution_hooks(request, payload)
\* up to the first await of trigger_hook.
TriggerExecutionHooks ==
    /\ ex.pc = "done"
    /\ hk["api"].pc = "idle"
    /\ triggers < calls
    /\ triggers' = triggers + 1
    /\ IF hook_manager = "installed"
       THEN HookCall("api", HttpEventType(ex.result), ex.req.session_id, TRUE)
       ELSE NoHookCall
    /\ UNCHANGED <<wsVars, svcVars, docker_client, hook_manager, enabled_hooks, ex, now, calls>>

HttpNext ==
    \/ \E req \in ExecutionRequest : HttpExecuteCode(req)
    \/ TriggerExecutionHooks
    \/ SandboxStep
    \/ \E exc \in {"FileNotFoundError", "Exception", "CancelledError"} : SpawnCompileRaises(exc)
    \/ \E exc \in {"CancelledError"} : CompileWaitRaises(exc)
    \/ \E exc \in {"FileNotFoundError", "Exception", "CancelledError"} : SpawnRunRaises(exc)
    \/ \E exc \in {"CancelledError"} : RunWaitRaises(exc)
    \/ \E exc \in {"FileNotFoundError", "Exception", "CancelledError"} : DockerRaises(exc)
    \/ \E k \in Callers : AssistantReturns(k)
    \/ \E k \in Callers, exc \in AwaitExc : AssistantRaises(k, exc)
    \/ \E k \in Callers, exc \in AwaitExc \cup {""} : SendResponseEnds(k, exc)
    \/ \E k \in Callers, exc \in AwaitExc \cup {""} : SendErrorEnds(k, exc)

HttpSpec == Init /\ [][HttpNext]_vars

\* C37: one request to /execute triggers each hook type at most once:
\* total_events grows by at most 1 for on_run and by at most 1 for
\* on_error per request.
C37_OneTriggerPerHookType ==
    /\ hook_stats.events_by_type["on_run"] <= calls
    /\ hook_stats.events_by_type["on_error"] <= calls

\* One request has ended and on_run was counted twice for it.
C37_TriggeredTwice ==
    /\ calls = 1 /\ triggers = 1
    /\ hk["api"].pc = "idle" /\ hk["exec"].pc = "idle"
    /\ hook_stats.events_by_type["on_run"] = 2



\* C38: a call that finds its client over the limit blocks the client
\* for 15 minutes from that call; while the block lasts every call of the
\* client, whatever the endpoint type, is answered False, is not recorded
\* and leaves the end of the block where it is; the first call at or
\* after the end of the block removes the block and is answered True.
C38_BlockedForFifteenMinutes ==
    /\ [](\A ip \in DOMAIN rl.blocked_ips : rl.blocked_ips[ip] <= rl.now + BlockDuration)
    /\ [][\A ip \in ClientIps, type \in EndpointTypes :
            IsAllowed(ip, type) =>
               LET entry == ip \in DOMAIN rl.blocked_ips
                   blocked == entry /\ rl.now < rl.blocked_ips[ip]
               IN  /\ blocked =>
                         /\ ~rl'.last.answer
                         /\ rl'.blocked_ips = rl.blocked_ips
                         /\ rl'.requests = rl.requests
                         /\ rl'.allowed = rl.allowed
                   /\ (~blocked /\ ~rl'.last.answer) =>
                         /\ ip \in DOMAIN rl'.blocked_ips
                         /\ rl'.blocked_ips[ip] = rl.now + BlockDuration
                   /\ (entry /\ ~blocked) =>
                         /\ rl'.last.answer
                         /\ ip \notin DOMAIN rl'.blocked_ips]_vars

\* A client that went over the limit of code_execution at minute 0 was
\* answered True for ai_requests at minute 15, and its block is removed.
C38_Witness ==
    /\ \E ip \in ClientIps :
          /\ rl.last.key = KeyOf(ip, "ai_requests")
          /\ Len(rl.allowed[KeyOf(ip, "code_execution")]) = CodeExecutionLimit
          /\ ip \notin DOMAIN rl.blocked_ips
    /\ rl.last.answer
    /\ rl.last.at = BlockDuration
    /\ rl.now = BlockDuration



(***************************************************************************)
(* The session manager under concurrent get, validate and delete calls.    *)
(***************************************************************************)
SessionSpec == WsSpecInit /\ [][SessionNext]_vars

\* C39: once delete_session(id) has returned True, every get_session(id)
\* and validate_session(id) call that begins later and returns reports the
\* session as absent, and no deleted session has an entry in the memory, also
\* when a get_session call that read the database was in flight while
\* the delete ran.
C39_DeletedStaysAbsent ==
    /\ sm.deleted \cap sm.memory = {}
    /\ \A g \in Getters :
          (sm.get[g].late /\ sm.get[g].pc = "idle") =>
             sm.get[g].ret \notin {"session", "True"}

\* A call that began after delete_session had returned True was answered
\* with the session.
C39_Recached ==
    \E g \in Getters :
       /\ sm.get[g].late /\ sm.get[g].pc = "idle"
       /\ sm.get[g].ret \in {"session", "True"}
       /\ sm.get[g].sid \in sm.deleted


====
